---- MODULE Spec2Model ----
(***************************************************************************)
(* Verification model of netscan: the batched, semaphore-capped sweeps     *)
(* (PingSweep, ScanPorts, NetworkDiscovery), the enumerator and the        *)
(* address comparator.                                                     *)
(*                                                                         *)
(* Strings are sequences of one-character strings, so that Split, Sscanf,  *)
(* Sprintf and the byte-wise string order are computed, not assumed.       *)
(* "CR" and "LF" stand for the bytes \r and \n.                            *)
(***************************************************************************)
EXTENDS Integers, Sequences, FiniteSets, TLC

----------------------------------------------------------------------------
(* Strings and the library functions the code calls                        *)

Digits == <<"0", "1", "2", "3", "4", "5", "6", "7", "8", "9">>

IsDigit(c) == \E k \in 1..10 : Digits[k] = c

DigitVal(c) == (CHOOSE k \in 1..10 : Digits[k] = c) - 1

\* byte value of a character, for Go's byte-wise string comparison
Ord(c) ==
    IF c = "." THEN 46
    ELSE IF c = "/" THEN 47
    ELSE IF IsDigit(c) THEN 48 + DigitVal(c)
    ELSE IF c = "x" THEN 120
    ELSE 0

\* Go's ip1 < ip2 on strings: byte-wise lexicographic
RECURSIVE StringLess(_, _)
StringLess(a, b) ==
    IF b = <<>> THEN FALSE
    ELSE IF a = <<>> THEN TRUE
    ELSE IF Ord(a[1]) # Ord(b[1]) THEN Ord(a[1]) < Ord(b[1])
    ELSE StringLess(Tail(a), Tail(b))

\* fmt.Sprintf("%d", n) for n >= 0
RECURSIVE Itoa(_)
Itoa(n) ==
    IF n < 10 THEN <<Digits[n + 1]>>
    ELSE Itoa(n \div 10) \o <<Digits[(n % 10) + 1]>>

\* strings.Split(s, sep) for a one-byte separator
Split(s, sep) ==
    LET RECURSIVE F(_, _)
        F(k, cur) ==
            IF k > Len(s) THEN <<cur>>
            ELSE IF s[k] = sep THEN <<cur>> \o F(k + 1, <<>>)
            ELSE F(k + 1, Append(cur, s[k]))
    IN F(1, <<>>)

\* strings.HasSuffix / strings.TrimSuffix
HasSuffix(s, suf) ==
    /\ Len(s) >= Len(suf)
    /\ SubSeq(s, Len(s) - Len(suf) + 1, Len(s)) = suf

TrimSuffix(s, suf) ==
    IF HasSuffix(s, suf) THEN SubSeq(s, 1, Len(s) - Len(suf)) ELSE s

\* fmt.Sscanf(s, "%d", &n) into a zero-initialised n: the value of the
\* leading run of decimal digits; n stays 0 when there is none.
Sscanf(s) ==
    LET RECURSIVE F(_, _)
        F(k, acc) ==
            IF k > Len(s) \/ ~IsDigit(s[k]) THEN acc
            ELSE F(k + 1, 10 * acc + DigitVal(s[k]))
    IN F(1, 0)

----------------------------------------------------------------------------
(* pkg/utils                                                               *)

Slash24 == <<"/", "2", "4">>

\* faulty variant: the loop runs through i = 255
GenerateIPs_through255(network) ==
    IF HasSuffix(network, Slash24)
    THEN LET base == TrimSuffix(network, Slash24)
             baseIP == Split(base, ".")
         IN IF Len(baseIP) = 4
            THEN [i \in 1..255 |->
                    baseIP[1] \o <<".">> \o baseIP[2] \o <<".">> \o baseIP[3]
                        \o <<".">> \o Itoa(i)]
            ELSE <<>>
    ELSE <<>>

GenerateIPs(network) ==
    IF HasSuffix(network, Slash24)
    THEN LET base == TrimSuffix(network, Slash24)
             baseIP == Split(base, ".")
         IN IF Len(baseIP) = 4
            THEN [i \in 1..254 |->
                    baseIP[1] \o <<".">> \o baseIP[2] \o <<".">> \o baseIP[3]
                        \o <<".">> \o Itoa(i)]
            ELSE <<>>
    ELSE <<>>

\* faulty variant: the addresses are compared as strings
CompareIPs_lexical(ip1, ip2) == StringLess(ip1, ip2)

CompareIPs(ip1, ip2) ==
    LET parts1 == Split(ip1, ".")
        parts2 == Split(ip2, ".")
        RECURSIVE Loop(_)
        Loop(i) ==
            IF i > 4 THEN FALSE
            ELSE LET n1 == Sscanf(parts1[i])
                     n2 == Sscanf(parts2[i])
                 IN IF n1 # n2 THEN n1 < n2 ELSE Loop(i + 1)
    IN Loop(1)

----------------------------------------------------------------------------
(* sort.Slice on the short slices of the model: Go sorts slices of fewer   *)
(* than 12 elements by insertion sort with the caller's less function.     *)

InsertHost(e, s) ==
    LET RECURSIVE Pos(_)
        \* insertion sort moves e left while less(e, left neighbour)
        Pos(k) == IF k >= 1 /\ CompareIPs(e.IP, s[k].IP) THEN Pos(k - 1) ELSE k
        pos == Pos(Len(s))
    IN SubSeq(s, 1, pos) \o <<e>> \o SubSeq(s, pos + 1, Len(s))

RECURSIVE SortHosts(_)
SortHosts(s) ==
    IF s = <<>> THEN <<>>
    ELSE InsertHost(s[Len(s)], SortHosts(SubSeq(s, 1, Len(s) - 1)))

InsertPort(e, s) ==
    LET RECURSIVE Pos(_)
        Pos(k) == IF k >= 1 /\ e.Port < s[k].Port THEN Pos(k - 1) ELSE k
        pos == Pos(Len(s))
    IN SubSeq(s, 1, pos) \o <<e>> \o SubSeq(s, pos + 1, Len(s))

RECURSIVE SortPorts(_)
SortPorts(s) ==
    IF s = <<>> THEN <<>>
    ELSE InsertPort(s[Len(s)], SortPorts(SubSeq(s, 1, Len(s) - 1)))

----------------------------------------------------------------------------
(* pkg/models                                                              *)

CommonServices ==
    [p \in {21, 22, 23, 25, 53, 80, 110, 135, 139, 143, 443, 445, 993, 995,
            1433, 3306, 3389, 5432, 5900, 6379, 8080, 9200} |->
        CASE p = 21 -> "FTP" [] p = 22 -> "SSH" [] p = 23 -> "Telnet"
          [] p = 25 -> "SMTP" [] p = 53 -> "DNS" [] p = 80 -> "HTTP"
          [] p = 110 -> "POP3" [] p = 135 -> "RPC" [] p = 139 -> "NetBIOS"
          [] p = 143 -> "IMAP" [] p = 443 -> "HTTPS" [] p = 445 -> "SMB"
          [] p = 993 -> "IMAPS" [] p = 995 -> "POP3S" [] p = 1433 -> "MSSQL"
          [] p = 3306 -> "MySQL" [] p = 3389 -> "RDP"
          [] p = 5432 -> "PostgreSQL" [] p = 5900 -> "VNC"
          [] p = 6379 -> "Redis" [] p = 8080 -> "HTTP-Alt"
          [] p = 9200 -> "Elasticsearch"]

\* models.CommonServices[port]: a Go map read yields "" for a missing key
ServiceOf(port) ==
    IF port \in DOMAIN CommonServices THEN CommonServices[port] ELSE ""

\* models.HostResult (Latency, a wall-clock duration, is not modelled)
HostResult(ip, alive, hostPorts) == [IP |-> ip, Alive |-> alive, Ports |-> hostPorts]

\* models.PortResult
PortResult(port, open, service, banner) ==
    [Port |-> port, Open |-> open, Service |-> service, Banner |-> banner]

----------------------------------------------------------------------------
(* pkg/banner                                                              *)

\* strings.ReplaceAll(s, "\r\n", " "): every \r that a \n follows becomes a
\* space and that \n is dropped
ReplaceCRLF(s) ==
    LET NotDropped(k) == ~(s[k] = "LF" /\ k > 1 /\ s[k - 1] = "CR")
        keep == SelectSeq([k \in 1..Len(s) |-> k], NotDropped)
    IN [j \in 1..Len(keep) |->
            IF s[keep[j]] = "CR" /\ keep[j] < Len(s) /\ s[keep[j] + 1] = "LF"
            THEN " " ELSE s[keep[j]]]

\* strings.ReplaceAll(s, "\n", " ")
ReplaceLF(s) == [k \in 1..Len(s) |-> IF s[k] = "LF" THEN " " ELSE s[k]]

IsSpace(c) == c \in {" ", "CR", "LF", "TAB"}

\* strings.TrimSpace
RECURSIVE TrimSpace(_)
TrimSpace(s) ==
    IF s = <<>> THEN <<>>
    ELSE IF IsSpace(s[1]) THEN TrimSpace(Tail(s))
    ELSE IF IsSpace(s[Len(s)]) THEN TrimSpace(SubSeq(s, 1, Len(s) - 1))
    ELSE s

Ellipsis == <<".", ".", ".">>

\* banner := string(buffer[:n]) and what follows it in both readers:
\* normalisation, then truncation to limit bytes
NormalizeBanner(raw, limit) ==
    LET b1 == ReplaceCRLF(raw)
        b2 == ReplaceLF(b1)
        b3 == TrimSpace(b2)
    IN IF Len(b3) > limit THEN SubSeq(b3, 1, limit) \o Ellipsis ELSE b3

\* conn.Read(buffer): at most Len(buffer) of the bytes the peer sent
ReadInto(data, bufSize) ==
    SubSeq(data, 1, IF Len(data) < bufSize THEN Len(data) ELSE bufSize)

\* peer = [err |-> the Read fails, data |-> the bytes the peer sends]
GrabBanner(peer, port) ==
    IF peer.err THEN <<>>
    ELSE NormalizeBanner(ReadInto(peer.data, 1024), 50)

GrabBannerFast(peer, port) ==
    IF port = 443 THEN <<>>
    ELSE IF peer.err THEN <<>>
    ELSE NormalizeBanner(ReadInto(peer.data, 512), 40)

----------------------------------------------------------------------------
(* Bounds of the model and the compiled-in constants.  The constants are   *)
(* scaled down together with the inputs; each batch size stays below the   *)
(* cap of its semaphore, as in the source (254 < 500, 1000 < 5000,         *)
(* 50 < 100), and the per-host port cap stays below the longest port list. *)

MaxHosts == 3
FirstHost == 9
MaxScanPorts == 3
MaxDiscPorts == 2

PingSweep_batchSize == 2
\* variant: a cap below the batch size
PingSweep_maxConcurrent_small == PingSweep_batchSize - 1

PingSweep_maxConcurrent == 3
ScanPorts_batchSize == 2
ScanPorts_maxConcurrent == 3
NetworkDiscovery_batchSize == 2
maxHostConcurrency == 3
maxPortConcurrency == 1
\* len(ports) of PingHostFast, ten in the source
PingHostFast_ports == 3

\* "10.0.0.0/24" and a specification the enumerator does not recognise
Net24 == <<"1", "0", ".", "0", ".", "0", ".", "0", "/", "2", "4">>
Net16 == <<"1", "0", ".", "0", ".", "0", ".", "0", "/", "1", "6">>
Networks == {Net24, Net16}

\* port lists handed to ScanPorts and NetworkDiscovery, in descending and
\* mixed order so that the final sort has work to do
PortPool == <<443, 80, 22, 8080, 21>>
PortLists(max) == {SubSeq(PortPool, 1, n) : n \in 0..max}

\* the sweep runs over a window of n consecutive enumerated addresses
Window(all, n) ==
    IF Len(all) >= FirstHost + n - 1
    THEN SubSeq(all, FirstHost, FirstHost + n - 1)
    ELSE <<>>

\* MaxHosts addresses, two batches; a discovery with two ports per host runs
\* over one full batch of hosts, and one with more ports over a single
\* host, whose port goroutines share nothing with those of another host
HostCount(f, portList) ==
    IF f = "NetworkDiscovery" /\ Len(portList) > 2 THEN 1
    ELSE IF f = "NetworkDiscovery" /\ Len(portList) = 2 THEN NetworkDiscovery_batchSize
    ELSE MaxHosts

\* what a listening peer sends on a port after the connection is made
PeerSends(port) ==
    CASE port = 22 -> [err |-> FALSE, data |-> <<"S", "S", "H", "CR", "LF">>]
      [] port = 80 -> [err |-> FALSE, data |-> <<"O", "K", "LF", "x">>]
      [] OTHER -> [err |-> TRUE, data |-> <<>>]

----------------------------------------------------------------------------
(* pkg/scanner: the port prober.  dialed is the outcome of net.DialTimeout *)

ScanPort(dialed, port) ==
    IF ~dialed THEN PortResult(port, FALSE, "", <<>>)
    ELSE PortResult(port, TRUE, ServiceOf(port), GrabBanner(PeerSends(port), port))

ScanPortFast(dialed, port) ==
    IF ~dialed THEN PortResult(port, FALSE, "", <<>>)
    ELSE PortResult(port, TRUE, ServiceOf(port), GrabBannerFast(PeerSends(port), port))

----------------------------------------------------------------------------
(* State                                                                   *)

VARIABLES
    fn,             \* the entry point called: PingSweep, ScanPorts, NetworkDiscovery
    network,        \* its network argument
    ports,          \* its ports argument
    ips,            \* utils.GenerateIPs(network)
    pc,             \* position of the calling goroutine
    i,              \* the batch loop variable (0-based offset)
    spawned,        \* items of the current batch a goroutine was started for
    recv,           \* ScanPorts: the result just received by the range loop
    batchHosts,
    allHosts,
    allResults,
    resultsMutex,   \* TRUE while locked
    ret,            \* the returned slice
    sem,            \* number of tokens in the batch's sem channel
    wg,             \* counter of the batch's WaitGroup
    closer,         \* the goroutine that waits for wg and closes results
    results,        \* buffer of the batch's results channel
    resultsClosed,
    task,           \* position of each item's goroutine
    probes,         \* how often each item's probe was executed
    outcome,        \* what each item's probe returned
    result,         \* ScanPorts: the local variable result of each goroutine
    ptask,          \* NetworkDiscovery: position of each port goroutine of a host
    pspawned,       \* port goroutines started by a host task
    portSem,
    portWg,
    pcloser,
    portResults,
    portClosed,
    openPorts,
    pprobes,        \* how often each (host, port) probe was executed
    presult,        \* the local variable result of each port goroutine
    o1, o2,         \* comparator check: the octets of the two addresses
    ip1, ip2,       \* the arguments of CompareIPs, the octets in dotted-quad form
    less12, less21, \* CompareIPs(ip1, ip2) and CompareIPs(ip2, ip1)
    cpc,            \* position of the comparator's caller
    gfields, gsuffix, \* enumerator check: the fields of the base and the suffix
    gpc,            \* position of the enumerator's caller
    hpc,            \* PingHostFast: position of the calling goroutine
    hstarted,       \* connection-attempt goroutines started so far
    attempt,        \* position of each connection-attempt goroutine
    dialOk,         \* whether each attempt's net.DialTimeout succeeded
    hconn,          \* the connection of each attempt
    signalled,      \* whether each attempt's send on success was taken
    success,        \* number of values buffered in the success channel
    ctx,            \* the context: live, expired (timeout) or canceled
    hret,           \* the value PingHostFast returns
    inTime,         \* history: a success was sent while ctx was live
    late,           \* history: a success was sent after the caller's select was decided
    sfn,            \* port prober: ScanPort or ScanPortFast
    sport,          \* its port argument
    speer,          \* what the peer does when the prober reads
    spc,            \* position of the prober
    conn,           \* the prober's connection: none, open, closed
    connOps,        \* the calls made on conn, in order
    pservice,       \* the prober's local variable service
    gbanner,        \* the banner reader's local variable banner
    bannerStr,
    sresult,        \* the PortResult returned
    dialing,        \* per host: connection attempts of its liveness probe under way
    hit,            \* per host: an attempt of its liveness probe has signalled success
    portRange,      \* port parser: the text given to ParsePortRange
    rpc,            \* position of the port parser's caller
    worker,         \* worker pool: the job (index of the address) each worker handles
    wpc,            \* position of each worker goroutine
    jobs,           \* buffer of the jobs channel
    jobsClosed,
    fed,            \* addresses the feeder goroutine has sent to jobs
    feeder,         \* the goroutine that sends the jobs and closes the channel
    taken,          \* history: how often each address was received from jobs
    mpc,            \* monitor: position of MonitorPorts / CheckHosts
    round,          \* rounds of CheckHosts started
    ticksFired,     \* ticks the ticker's timer has fired
    ticksTaken,     \* ticks received from ticker.C
    tickPending,    \* ticker.C, a channel of capacity 1, holds a tick
    hostIdx,        \* index of the host CheckHosts is at
    portIdx,        \* index of the port CheckHosts is at
    mOpen,          \* the local variable openPorts of CheckHosts
    inFlight,       \* calls of ScanPort under way
    probeLog,       \* history: the (host, port) pairs probed in the round, in order
    reports         \* the status lines printed in the round, in order

inputs == <<fn, network, ports, ips>>
mainv == <<pc, i, spawned, recv, batchHosts, allHosts, allResults, resultsMutex, ret>>
batchv == <<sem, wg, closer, results, resultsClosed>>
taskv == <<task, probes, outcome, result>>
innerv == <<ptask, pspawned, portSem, portWg, pcloser, portResults, portClosed,
            openPorts, pprobes, presult>>
cmpv == <<o1, o2, ip1, ip2, less12, less21, cpc>>
genv == <<gfields, gsuffix, gpc>>
pingv == <<hpc, hstarted, attempt, dialOk, hconn, signalled, success, ctx, hret, inTime,
          late>>
probev == <<sfn, sport, speer, spc, conn, connOps, pservice, gbanner, bannerStr, sresult>>
\* the variables of the checks of single functions, untouched by the sweeps
sockv == <<dialing, hit>>
parsev == <<portRange, rpc>>
poolv == <<worker, wpc, jobs, jobsClosed, fed, feeder, taken>>
monv == <<mpc, round, ticksFired, ticksTaken, tickPending, hostIdx, portIdx, mOpen,
          inFlight, probeLog, reports>>
\* the variables of the checks of single functions, as a group of their own
idlev == <<cmpv, genv, pingv, probev, sockv, parsev>>
otherv == <<idlev, poolv, monv>>
vars == <<inputs, mainv, batchv, taskv, innerv, otherv>>

\* the work sequence of the running sweep and the current batch
Work == IF fn = "ScanPorts" THEN ports ELSE ips
Items == 1..Len(Work)
PortItems == 1..Len(ports)
BatchSize ==
    CASE fn = "PingSweep" -> PingSweep_batchSize
      [] fn = "ScanPorts" -> ScanPorts_batchSize
      [] OTHER -> NetworkDiscovery_batchSize
BatchEnd == IF i + BatchSize > Len(Work) THEN Len(Work) ELSE i + BatchSize

ZeroPortResult == PortResult(0, FALSE, "", <<>>)

\* the state of a sweep that has not dispatched anything
SweepStart ==
    /\ pc = "loop"
    /\ i = 0
    /\ spawned = 0
    /\ recv = ZeroPortResult
    /\ batchHosts = <<>>
    /\ allHosts = <<>>
    /\ allResults = <<>>
    /\ resultsMutex = FALSE
    /\ ret = <<>>
    /\ sem = 0
    /\ wg = 0
    /\ closer = "none"
    /\ results = <<>>
    /\ resultsClosed = FALSE
    /\ task = [t \in Items |-> "idle"]
    /\ probes = [t \in Items |-> 0]
    /\ outcome = [t \in Items |-> FALSE]
    /\ result = [t \in Items |-> ZeroPortResult]
    /\ ptask = [t \in Items |-> [p \in PortItems |-> "idle"]]
    /\ pspawned = [t \in Items |-> 0]
    /\ portSem = [t \in Items |-> 0]
    /\ portWg = [t \in Items |-> 0]
    /\ pcloser = [t \in Items |-> "none"]
    /\ portResults = [t \in Items |-> <<>>]
    /\ portClosed = [t \in Items |-> FALSE]
    /\ openPorts = [t \in Items |-> <<>>]
    /\ pprobes = [t \in Items |-> [p \in PortItems |-> 0]]
    /\ presult = [t \in Items |-> [p \in PortItems |-> ZeroPortResult]]

\* no comparator call under way
CompareIdle ==
    /\ o1 = <<>> /\ o2 = <<>> /\ ip1 = <<>> /\ ip2 = <<>>
    /\ less12 = FALSE /\ less21 = FALSE
    /\ cpc = "none"

\* no enumerator call under way
GenerateIdle ==
    /\ gfields = <<>> /\ gsuffix = <<>>
    /\ gpc = "none"

\* the goroutines of one PingHostFast call
Attempts == 1..PingHostFast_ports

\* no PingHostFast call under way
PingIdle ==
    /\ hpc = "none"
    /\ hstarted = 0
    /\ attempt = [a \in Attempts |-> "idle"]
    /\ dialOk = [a \in Attempts |-> FALSE]
    /\ hconn = [a \in Attempts |-> "none"]
    /\ signalled = [a \in Attempts |-> FALSE]
    /\ success = 0
    /\ ctx = "none"
    /\ hret = FALSE
    /\ inTime = FALSE
    /\ late = FALSE

\* no port probe under way
ProbeIdle ==
    /\ sfn = "none"
    /\ sport = 0
    /\ speer = [err |-> TRUE, data |-> <<>>]
    /\ spc = "none"
    /\ conn = "none"
    /\ connOps = <<>>
    /\ pservice = ""
    /\ gbanner = <<>>
    /\ bannerStr = <<>>
    /\ sresult = ZeroPortResult

\* no liveness probe of a host has attempts under way
SocketsIdle ==
    /\ dialing = [t \in Items |-> 0]
    /\ hit = [t \in Items |-> FALSE]

\* no port parser call under way
ParseIdle ==
    /\ portRange = <<>>
    /\ rpc = "none"

\* const numWorkers = 50; const bufferSize = 100
numWorkers == 2
bufferSize == 2
Workers == 1..numWorkers

\* no worker pool under way
PoolIdle ==
    /\ worker = [w \in Workers |-> 0]
    /\ wpc = [w \in Workers |-> "none"]
    /\ jobs = <<>>
    /\ jobsClosed = FALSE
    /\ fed = 0
    /\ feeder = "none"
    /\ taken = [t \in Items |-> 0]

\* no monitor under way
MonitorIdle ==
    /\ mpc = "none"
    /\ round = 0
    /\ ticksFired = 0
    /\ ticksTaken = 0
    /\ tickPending = FALSE
    /\ hostIdx = 0
    /\ portIdx = 0
    /\ mOpen = <<>>
    /\ inFlight = 0
    /\ probeLog = <<>>
    /\ reports = <<>>

Init ==
    /\ fn \in {"PingSweep", "ScanPorts", "NetworkDiscovery"}
    /\ network \in IF fn = "ScanPorts" THEN {<<>>} ELSE Networks
    /\ ports \in CASE fn = "PingSweep" -> {<<>>}
                   [] fn = "ScanPorts" -> PortLists(MaxScanPorts)
                   [] OTHER -> PortLists(MaxDiscPorts)
    /\ ips = IF fn = "ScanPorts" THEN <<>>
             ELSE Window(GenerateIPs(network), HostCount(fn, ports))
    /\ SweepStart
    /\ CompareIdle
    /\ GenerateIdle
    /\ PingIdle
    /\ ProbeIdle
    /\ SocketsIdle
    /\ ParseIdle
    /\ PoolIdle
    /\ MonitorIdle

----------------------------------------------------------------------------
(* PingSweep                                                               *)

\* for i < len(ips): batch := ips[i:end]; fresh wg, results and sem
PingSweep_BatchBegin ==
    /\ fn = "PingSweep" /\ pc = "loop" /\ i < Len(ips)
    /\ pc' = "dispatch"
    /\ spawned' = 0
    /\ wg' = 0 /\ sem' = 0 /\ results' = <<>> /\ resultsClosed' = FALSE
    /\ closer' = "none"
    /\ UNCHANGED <<inputs, otherv, i, recv, batchHosts, allHosts, allResults,
                   resultsMutex, ret, taskv, innerv>>

\* for _, ip := range batch { wg.Add(1); go func(ip) {...}(ip) }
PingSweep_Dispatch ==
    /\ fn = "PingSweep" /\ pc = "dispatch" /\ i + spawned < BatchEnd
    /\ wg' = wg + 1
    /\ task' = [task EXCEPT ![i + spawned + 1] = "start"]
    /\ spawned' = spawned + 1
    /\ UNCHANGED <<inputs, otherv, pc, i, recv, batchHosts, allHosts, allResults,
                   resultsMutex, ret, sem, closer, results, resultsClosed,
                   probes, outcome, result, innerv>>

\* go func() { wg.Wait(); close(results) }(); var batchHosts
PingSweep_SpawnCloser ==
    /\ fn = "PingSweep" /\ pc = "dispatch" /\ i + spawned = BatchEnd
    /\ closer' = "wait"
    /\ batchHosts' = <<>>
    /\ pc' = "collect"
    /\ UNCHANGED <<inputs, otherv, i, spawned, recv, allHosts, allResults, resultsMutex,
                   ret, sem, wg, results, resultsClosed, taskv, innerv>>

\* sem <- struct{}{}: blocks while the channel is full
PingSweep_Acquire(t) ==
    /\ fn = "PingSweep" /\ task[t] = "start"
    /\ sem < PingSweep_maxConcurrent
    /\ sem' = sem + 1
    /\ task' = [task EXCEPT ![t] = "run"]
    /\ UNCHANGED <<inputs, otherv, mainv, wg, closer, results, resultsClosed,
                   probes, outcome, result, innerv>>

\* faulty variant: a failed liveness probe is tried again
PingSweep_Ping_retry(t) ==
    /\ fn = "PingSweep" /\ task[t] = "run"
    /\ \E alive \in BOOLEAN :
        /\ outcome' = [outcome EXCEPT ![t] = alive]
        /\ task' = [task EXCEPT ![t] = IF alive THEN "send" ELSE "run"]
    /\ probes' = [probes EXCEPT ![t] = @ + 1]
    /\ UNCHANGED <<inputs, otherv, mainv, batchv, result, innerv>>

\* faulty variant: the result is sent whether or not the host is alive
PingSweep_Ping_nofilter(t) ==
    /\ fn = "PingSweep" /\ task[t] = "run"
    /\ \E alive \in BOOLEAN :
        /\ outcome' = [outcome EXCEPT ![t] = alive]
        /\ task' = [task EXCEPT ![t] = "send"]
    /\ probes' = [probes EXCEPT ![t] = @ + 1]
    /\ UNCHANGED <<inputs, otherv, mainv, batchv, result, innerv>>

\* alive := PingHostFast(ip); the return value is the environment's choice
PingSweep_Ping(t) ==
    /\ fn = "PingSweep" /\ task[t] = "run"
    /\ \E alive \in BOOLEAN :
        /\ outcome' = [outcome EXCEPT ![t] = alive]
        /\ task' = [task EXCEPT ![t] = IF alive THEN "send" ELSE "release"]
    /\ probes' = [probes EXCEPT ![t] = @ + 1]
    /\ UNCHANGED <<inputs, otherv, mainv, batchv, result, innerv>>

\* results <- models.HostResult{IP: ip, Alive: alive, Latency: latency}
PingSweep_Send(t) ==
    /\ fn = "PingSweep" /\ task[t] = "send"
    /\ IF resultsClosed
       THEN \* a send on a closed channel panics
            task' = [task EXCEPT ![t] = "panic"] /\ UNCHANGED results
       ELSE \* a send blocks while the buffer, of capacity len(batch), is full
            /\ Len(results) < BatchEnd - i
            /\ results' = Append(results, HostResult(ips[t], outcome[t], <<>>))
            /\ task' = [task EXCEPT ![t] = "release"]
    /\ UNCHANGED <<inputs, otherv, mainv, sem, wg, closer, resultsClosed,
                   probes, outcome, result, innerv>>

\* defer func() { <-sem }()
PingSweep_Release(t) ==
    /\ fn = "PingSweep" /\ task[t] = "release"
    /\ sem > 0
    /\ sem' = sem - 1
    /\ task' = [task EXCEPT ![t] = "wgdone"]
    /\ UNCHANGED <<inputs, otherv, mainv, wg, closer, results, resultsClosed,
                   probes, outcome, result, innerv>>

\* defer wg.Done()
PingSweep_Done(t) ==
    /\ fn = "PingSweep" /\ task[t] = "wgdone"
    /\ wg' = wg - 1
    /\ task' = [task EXCEPT ![t] = "fin"]
    /\ UNCHANGED <<inputs, otherv, mainv, sem, closer, results, resultsClosed,
                   probes, outcome, result, innerv>>

\* faulty variant: the channel is closed without waiting for the tasks
PingSweep_Close_nowait ==
    /\ fn = "PingSweep" /\ closer = "wait"
    /\ resultsClosed' = TRUE
    /\ closer' = "fin"
    /\ UNCHANGED <<inputs, otherv, mainv, sem, wg, results, taskv, innerv>>

\* wg.Wait() returns when the counter is zero; close(results)
PingSweep_Close ==
    /\ fn = "PingSweep" /\ closer = "wait"
    /\ wg = 0
    /\ resultsClosed' = TRUE
    /\ closer' = "fin"
    /\ UNCHANGED <<inputs, otherv, mainv, sem, wg, results, taskv, innerv>>

\* for result := range results { batchHosts = append(batchHosts, result) }
PingSweep_Receive ==
    /\ fn = "PingSweep" /\ pc = "collect" /\ results # <<>>
    /\ batchHosts' = Append(batchHosts, Head(results))
    /\ results' = Tail(results)
    /\ UNCHANGED <<inputs, otherv, pc, i, spawned, recv, allHosts, allResults,
                   resultsMutex, ret, sem, wg, closer, resultsClosed, taskv, innerv>>

\* faulty variant: the collecting loop stops at an empty buffer without waiting for
\* the channel to be closed
PingSweep_RangeEnd_early ==
    /\ fn = "PingSweep" /\ pc = "collect" /\ results = <<>>
    /\ pc' = "lock"
    /\ UNCHANGED <<inputs, otherv, i, spawned, recv, batchHosts, allHosts, allResults,
                   resultsMutex, ret, batchv, taskv, innerv>>

\* the range loop ends when the channel is closed and drained
PingSweep_RangeEnd ==
    /\ fn = "PingSweep" /\ pc = "collect" /\ results = <<>> /\ resultsClosed
    /\ pc' = "lock"
    /\ UNCHANGED <<inputs, otherv, i, spawned, recv, batchHosts, allHosts, allResults,
                   resultsMutex, ret, batchv, taskv, innerv>>

\* resultsMutex.Lock()
PingSweep_Lock ==
    /\ fn = "PingSweep" /\ pc = "lock" /\ ~resultsMutex
    /\ resultsMutex' = TRUE
    /\ pc' = "append"
    /\ UNCHANGED <<inputs, otherv, i, spawned, recv, batchHosts, allHosts, allResults,
                   ret, batchv, taskv, innerv>>

\* allHosts = append(allHosts, batchHosts...)
PingSweep_Append ==
    /\ fn = "PingSweep" /\ pc = "append"
    /\ allHosts' = allHosts \o batchHosts
    /\ pc' = "unlock"
    /\ UNCHANGED <<inputs, otherv, i, spawned, recv, batchHosts, allResults,
                   resultsMutex, ret, batchv, taskv, innerv>>

\* resultsMutex.Unlock(); i += batchSize
PingSweep_Unlock ==
    /\ fn = "PingSweep" /\ pc = "unlock"
    /\ resultsMutex' = FALSE
    /\ i' = i + PingSweep_batchSize
    /\ pc' = "loop"
    /\ UNCHANGED <<inputs, otherv, spawned, recv, batchHosts, allHosts, allResults,
                   ret, batchv, taskv, innerv>>

\* faulty variant: the accumulator is returned in collection order
PingSweep_Return_nosort ==
    /\ fn = "PingSweep" /\ pc = "loop" /\ i >= Len(ips)
    /\ ret' = allHosts
    /\ pc' = "returned"
    /\ UNCHANGED <<inputs, otherv, i, spawned, recv, batchHosts, allHosts, allResults,
                   resultsMutex, batchv, taskv, innerv>>

\* loop exit: sort.Slice(allHosts, CompareIPs); return allHosts
PingSweep_Return ==
    /\ fn = "PingSweep" /\ pc = "loop" /\ i >= Len(ips)
    /\ allHosts' = SortHosts(allHosts)
    /\ ret' = allHosts'
    /\ pc' = "returned"
    /\ UNCHANGED <<inputs, otherv, i, spawned, recv, batchHosts, allResults,
                   resultsMutex, batchv, taskv, innerv>>

PingSweep ==
    \/ PingSweep_BatchBegin
    \/ PingSweep_Dispatch
    \/ PingSweep_SpawnCloser
    \/ \E t \in Items : PingSweep_Acquire(t)
    \/ \E t \in Items : PingSweep_Ping(t)
    \/ \E t \in Items : PingSweep_Send(t)
    \/ \E t \in Items : PingSweep_Release(t)
    \/ \E t \in Items : PingSweep_Done(t)
    \/ PingSweep_Close
    \/ PingSweep_Receive
    \/ PingSweep_RangeEnd
    \/ PingSweep_Lock
    \/ PingSweep_Append
    \/ PingSweep_Unlock
    \/ PingSweep_Return

----------------------------------------------------------------------------
(* ScanPorts                                                               *)

\* for i < len(ports): batch := ports[i:end]; fresh wg, results and sem
ScanPorts_BatchBegin ==
    /\ fn = "ScanPorts" /\ pc = "loop" /\ i < Len(ports)
    /\ pc' = "dispatch"
    /\ spawned' = 0
    /\ wg' = 0 /\ sem' = 0 /\ results' = <<>> /\ resultsClosed' = FALSE
    /\ closer' = "none"
    /\ UNCHANGED <<inputs, otherv, i, recv, batchHosts, allHosts, allResults,
                   resultsMutex, ret, taskv, innerv>>

\* for _, port := range batch { wg.Add(1); go func(port) {...}(port) }
ScanPorts_Dispatch ==
    /\ fn = "ScanPorts" /\ pc = "dispatch" /\ i + spawned < BatchEnd
    /\ wg' = wg + 1
    /\ task' = [task EXCEPT ![i + spawned + 1] = "start"]
    /\ spawned' = spawned + 1
    /\ UNCHANGED <<inputs, otherv, pc, i, recv, batchHosts, allHosts, allResults,
                   resultsMutex, ret, sem, closer, results, resultsClosed,
                   probes, outcome, result, innerv>>

\* go func() { wg.Wait(); close(results) }()
ScanPorts_SpawnCloser ==
    /\ fn = "ScanPorts" /\ pc = "dispatch" /\ i + spawned = BatchEnd
    /\ closer' = "wait"
    /\ pc' = "collect"
    /\ UNCHANGED <<inputs, otherv, i, spawned, recv, batchHosts, allHosts, allResults, resultsMutex,
                   ret, sem, wg, results, resultsClosed, taskv, innerv>>

\* sem <- struct{}{}: blocks while the channel is full
ScanPorts_Acquire(t) ==
    /\ fn = "ScanPorts" /\ task[t] = "start"
    /\ sem < ScanPorts_maxConcurrent
    /\ sem' = sem + 1
    /\ task' = [task EXCEPT ![t] = "run"]
    /\ UNCHANGED <<inputs, otherv, mainv, wg, closer, results, resultsClosed,
                   probes, outcome, result, innerv>>

\* faulty variant: the result is sent whether or not the port is open
ScanPorts_Scan_nofilter(t) ==
    /\ fn = "ScanPorts" /\ task[t] = "run"
    /\ \E dialed \in BOOLEAN :
        /\ outcome' = [outcome EXCEPT ![t] = dialed]
        /\ result' = [result EXCEPT ![t] = ScanPort(dialed, ports[t])]
    /\ task' = [task EXCEPT ![t] = "send"]
    /\ probes' = [probes EXCEPT ![t] = @ + 1]
    /\ UNCHANGED <<inputs, otherv, mainv, batchv, innerv>>

\* result := ScanPort(target, port); the dial outcome is the environment's
ScanPorts_Scan(t) ==
    /\ fn = "ScanPorts" /\ task[t] = "run"
    /\ \E dialed \in BOOLEAN :
        /\ outcome' = [outcome EXCEPT ![t] = dialed]
        /\ result' = [result EXCEPT ![t] = ScanPort(dialed, ports[t])]
    /\ task' = [task EXCEPT ![t] = IF result'[t].Open THEN "send" ELSE "release"]
    /\ probes' = [probes EXCEPT ![t] = @ + 1]
    /\ UNCHANGED <<inputs, otherv, mainv, batchv, innerv>>

\* if result.Open { results <- result }
ScanPorts_Send(t) ==
    /\ fn = "ScanPorts" /\ task[t] = "send"
    /\ IF resultsClosed
       THEN \* a send on a closed channel panics
            task' = [task EXCEPT ![t] = "panic"] /\ UNCHANGED results
       ELSE \* a send blocks while the buffer, of capacity len(batch), is full
            /\ Len(results) < BatchEnd - i
            /\ results' = Append(results, result[t])
            /\ task' = [task EXCEPT ![t] = "release"]
    /\ UNCHANGED <<inputs, otherv, mainv, sem, wg, closer, resultsClosed,
                   probes, outcome, result, innerv>>

\* defer func() { <-sem }()
ScanPorts_Release(t) ==
    /\ fn = "ScanPorts" /\ task[t] = "release"
    /\ sem > 0
    /\ sem' = sem - 1
    /\ task' = [task EXCEPT ![t] = "wgdone"]
    /\ UNCHANGED <<inputs, otherv, mainv, wg, closer, results, resultsClosed,
                   probes, outcome, result, innerv>>

\* defer wg.Done()
ScanPorts_Done(t) ==
    /\ fn = "ScanPorts" /\ task[t] = "wgdone"
    /\ wg' = wg - 1
    /\ task' = [task EXCEPT ![t] = "fin"]
    /\ UNCHANGED <<inputs, otherv, mainv, sem, closer, results, resultsClosed,
                   probes, outcome, result, innerv>>

\* wg.Wait() returns when the counter is zero; close(results)
ScanPorts_Close ==
    /\ fn = "ScanPorts" /\ closer = "wait"
    /\ wg = 0
    /\ resultsClosed' = TRUE
    /\ closer' = "fin"
    /\ UNCHANGED <<inputs, otherv, mainv, sem, wg, results, taskv, innerv>>

\* for result := range results: the next result is received
ScanPorts_Receive ==
    /\ fn = "ScanPorts" /\ pc = "collect" /\ results # <<>>
    /\ recv' = Head(results)
    /\ results' = Tail(results)
    /\ pc' = "lock"
    /\ UNCHANGED <<inputs, otherv, i, spawned, batchHosts, allHosts, allResults,
                   resultsMutex, ret, sem, wg, closer, resultsClosed, taskv, innerv>>

\* faulty variant: the result is appended without taking the mutex
ScanPorts_Lock_missing ==
    /\ fn = "ScanPorts" /\ pc = "lock"
    /\ pc' = "append"
    /\ UNCHANGED <<inputs, otherv, i, spawned, recv, batchHosts, allHosts, allResults,
                   resultsMutex, ret, batchv, taskv, innerv>>

\* resultsMutex.Lock()
ScanPorts_Lock ==
    /\ fn = "ScanPorts" /\ pc = "lock" /\ ~resultsMutex
    /\ resultsMutex' = TRUE
    /\ pc' = "append"
    /\ UNCHANGED <<inputs, otherv, i, spawned, recv, batchHosts, allHosts, allResults,
                   ret, batchv, taskv, innerv>>

\* allResults = append(allResults, result)
ScanPorts_Append ==
    /\ fn = "ScanPorts" /\ pc = "append"
    /\ allResults' = Append(allResults, recv)
    /\ pc' = "unlock"
    /\ UNCHANGED <<inputs, otherv, i, spawned, recv, batchHosts, allHosts,
                   resultsMutex, ret, batchv, taskv, innerv>>

\* resultsMutex.Unlock(); back to the range loop
ScanPorts_Unlock ==
    /\ fn = "ScanPorts" /\ pc = "unlock"
    /\ resultsMutex' = FALSE
    /\ pc' = "collect"
    /\ UNCHANGED <<inputs, otherv, i, spawned, recv, batchHosts, allHosts, allResults,
                   ret, batchv, taskv, innerv>>

\* the range loop ends when the channel is closed and drained; i += batchSize
ScanPorts_RangeEnd ==
    /\ fn = "ScanPorts" /\ pc = "collect" /\ results = <<>> /\ resultsClosed
    /\ i' = i + ScanPorts_batchSize
    /\ pc' = "loop"
    /\ UNCHANGED <<inputs, otherv, spawned, recv, batchHosts, allHosts, allResults,
                   resultsMutex, ret, batchv, taskv, innerv>>

\* loop exit: sort.Slice(allResults, by Port); return allResults
ScanPorts_Return ==
    /\ fn = "ScanPorts" /\ pc = "loop" /\ i >= Len(ports)
    /\ allResults' = SortPorts(allResults)
    /\ ret' = allResults'
    /\ pc' = "returned"
    /\ UNCHANGED <<inputs, otherv, i, spawned, recv, batchHosts, allHosts,
                   resultsMutex, batchv, taskv, innerv>>

ScanPorts ==
    \/ ScanPorts_BatchBegin
    \/ ScanPorts_Dispatch
    \/ ScanPorts_SpawnCloser
    \/ \E t \in Items : ScanPorts_Acquire(t)
    \/ \E t \in Items : ScanPorts_Scan(t)
    \/ \E t \in Items : ScanPorts_Send(t)
    \/ \E t \in Items : ScanPorts_Release(t)
    \/ \E t \in Items : ScanPorts_Done(t)
    \/ ScanPorts_Close
    \/ ScanPorts_Receive
    \/ ScanPorts_RangeEnd
    \/ ScanPorts_Lock
    \/ ScanPorts_Append
    \/ ScanPorts_Unlock
    \/ ScanPorts_Return

----------------------------------------------------------------------------
(* NetworkDiscovery                                                               *)

\* for i < len(ips): batch := ips[i:end]; fresh wg, results and sem
NetworkDiscovery_BatchBegin ==
    /\ fn = "NetworkDiscovery" /\ pc = "loop" /\ i < Len(ips)
    /\ pc' = "dispatch"
    /\ spawned' = 0
    /\ wg' = 0 /\ sem' = 0 /\ results' = <<>> /\ resultsClosed' = FALSE
    /\ closer' = "none"
    /\ UNCHANGED <<inputs, otherv, i, recv, batchHosts, allHosts, allResults,
                   resultsMutex, ret, taskv, innerv>>

\* for _, ip := range batch { wg.Add(1); go func(ip) {...}(ip) }
NetworkDiscovery_Dispatch ==
    /\ fn = "NetworkDiscovery" /\ pc = "dispatch" /\ i + spawned < BatchEnd
    /\ wg' = wg + 1
    /\ task' = [task EXCEPT ![i + spawned + 1] = "start"]
    /\ spawned' = spawned + 1
    /\ UNCHANGED <<inputs, otherv, pc, i, recv, batchHosts, allHosts, allResults,
                   resultsMutex, ret, sem, closer, results, resultsClosed,
                   probes, outcome, result, innerv>>

\* go func() { wg.Wait(); close(results) }(); var batchHosts
NetworkDiscovery_SpawnCloser ==
    /\ fn = "NetworkDiscovery" /\ pc = "dispatch" /\ i + spawned = BatchEnd
    /\ closer' = "wait"
    /\ batchHosts' = <<>>
    /\ pc' = "collect"
    /\ UNCHANGED <<inputs, otherv, i, spawned, recv, allHosts, allResults, resultsMutex,
                   ret, sem, wg, results, resultsClosed, taskv, innerv>>

\* sem <- struct{}{}: blocks while the channel is full
NetworkDiscovery_Acquire(t) ==
    /\ fn = "NetworkDiscovery" /\ task[t] = "start"
    /\ sem < maxHostConcurrency
    /\ sem' = sem + 1
    /\ task' = [task EXCEPT ![t] = "run"]
    /\ UNCHANGED <<inputs, otherv, mainv, wg, closer, results, resultsClosed,
                   probes, outcome, result, innerv>>

\* faulty variant: the early return of a host that is not alive leaves without
\* giving the slot back
NetworkDiscovery_Ping_leak(t) ==
    /\ fn = "NetworkDiscovery" /\ task[t] = "run"
    /\ \E alive \in BOOLEAN :
        /\ outcome' = [outcome EXCEPT ![t] = alive]
        /\ task' = [task EXCEPT ![t] = IF alive THEN "pdispatch" ELSE "wgdone"]
    /\ probes' = [probes EXCEPT ![t] = @ + 1]
    /\ UNCHANGED <<inputs, otherv, mainv, batchv, result, innerv>>

\* faulty variant: the ports are scanned whatever the liveness probe returned
NetworkDiscovery_Ping_noreturn(t) ==
    /\ fn = "NetworkDiscovery" /\ task[t] = "run"
    /\ \E alive \in BOOLEAN :
        /\ outcome' = [outcome EXCEPT ![t] = alive]
        /\ task' = [task EXCEPT ![t] = "pdispatch"]
    /\ probes' = [probes EXCEPT ![t] = @ + 1]
    /\ UNCHANGED <<inputs, otherv, mainv, batchv, result, innerv>>

\* if !PingHostFast(ip) { return }; otherwise the host task goes on to
\* make portWg, portResults and portSem and to start the port goroutines
NetworkDiscovery_Ping(t) ==
    /\ fn = "NetworkDiscovery" /\ task[t] = "run"
    /\ \E alive \in BOOLEAN :
        /\ outcome' = [outcome EXCEPT ![t] = alive]
        /\ task' = [task EXCEPT ![t] = IF alive THEN "pdispatch" ELSE "release"]
    /\ probes' = [probes EXCEPT ![t] = @ + 1]
    /\ UNCHANGED <<inputs, otherv, mainv, batchv, result, innerv>>

\* for _, port := range ports { portWg.Add(1); go func(port) {...}(port) }
NetworkDiscovery_PortDispatch(t) ==
    /\ fn = "NetworkDiscovery" /\ task[t] = "pdispatch"
    /\ pspawned[t] < Len(ports)
    /\ portWg' = [portWg EXCEPT ![t] = @ + 1]
    /\ ptask' = [ptask EXCEPT ![t][pspawned[t] + 1] = "start"]
    /\ pspawned' = [pspawned EXCEPT ![t] = @ + 1]
    /\ UNCHANGED <<inputs, otherv, mainv, batchv, taskv, portSem, pcloser, portResults,
                   portClosed, openPorts, pprobes, presult>>

\* go func() { portWg.Wait(); close(portResults) }(); var openPorts
NetworkDiscovery_PortSpawnCloser(t) ==
    /\ fn = "NetworkDiscovery" /\ task[t] = "pdispatch"
    /\ pspawned[t] = Len(ports)
    /\ pcloser' = [pcloser EXCEPT ![t] = "wait"]
    /\ task' = [task EXCEPT ![t] = "pcollect"]
    /\ UNCHANGED <<inputs, otherv, mainv, batchv, probes, outcome, result, ptask,
                   pspawned, portSem, portWg, portResults, portClosed,
                   openPorts, pprobes, presult>>

\* faulty variant: the port goroutine starts its probe without waiting for a slot
NetworkDiscovery_PortAcquire_nocap(t, p) ==
    /\ fn = "NetworkDiscovery" /\ ptask[t][p] = "start"
    /\ portSem' = [portSem EXCEPT ![t] = @ + 1]
    /\ ptask' = [ptask EXCEPT ![t][p] = "run"]
    /\ UNCHANGED <<inputs, otherv, mainv, batchv, taskv, pspawned, portWg, pcloser,
                   portResults, portClosed, openPorts, pprobes, presult>>

\* faulty variant: the port channel is given the capacity of the host channel
NetworkDiscovery_PortAcquire_hostcap(t, p) ==
    /\ fn = "NetworkDiscovery" /\ ptask[t][p] = "start"
    /\ portSem[t] < maxHostConcurrency
    /\ portSem' = [portSem EXCEPT ![t] = @ + 1]
    /\ ptask' = [ptask EXCEPT ![t][p] = "run"]
    /\ UNCHANGED <<inputs, otherv, mainv, batchv, taskv, pspawned, portWg, pcloser,
                   portResults, portClosed, openPorts, pprobes, presult>>

\* portSem <- struct{}{}
NetworkDiscovery_PortAcquire(t, p) ==
    /\ fn = "NetworkDiscovery" /\ ptask[t][p] = "start"
    /\ portSem[t] < maxPortConcurrency
    /\ portSem' = [portSem EXCEPT ![t] = @ + 1]
    /\ ptask' = [ptask EXCEPT ![t][p] = "run"]
    /\ UNCHANGED <<inputs, otherv, mainv, batchv, taskv, pspawned, portWg, pcloser,
                   portResults, portClosed, openPorts, pprobes, presult>>

\* result := ScanPortFast(ip, port)
NetworkDiscovery_PortScan(t, p) ==
    /\ fn = "NetworkDiscovery" /\ ptask[t][p] = "run"
    /\ \E dialed \in BOOLEAN :
        presult' = [presult EXCEPT ![t][p] = ScanPortFast(dialed, ports[p])]
    /\ ptask' = [ptask EXCEPT ![t][p] =
                    IF presult'[t][p].Open THEN "send" ELSE "release"]
    /\ pprobes' = [pprobes EXCEPT ![t][p] = @ + 1]
    /\ UNCHANGED <<inputs, otherv, mainv, batchv, taskv, pspawned, portSem, portWg,
                   pcloser, portResults, portClosed, openPorts>>

\* if result.Open { portResults <- result }
NetworkDiscovery_PortSend(t, p) ==
    /\ fn = "NetworkDiscovery" /\ ptask[t][p] = "send"
    /\ IF portClosed[t]
       THEN ptask' = [ptask EXCEPT ![t][p] = "panic"] /\ UNCHANGED portResults
       ELSE /\ Len(portResults[t]) < Len(ports)
            /\ portResults' = [portResults EXCEPT ![t] = Append(@, presult[t][p])]
            /\ ptask' = [ptask EXCEPT ![t][p] = "release"]
    /\ UNCHANGED <<inputs, otherv, mainv, batchv, taskv, pspawned, portSem, portWg,
                   pcloser, portClosed, openPorts, pprobes, presult>>

\* faulty variant: the port goroutine keeps its slot when it finishes
NetworkDiscovery_PortRelease_leak(t, p) ==
    /\ fn = "NetworkDiscovery" /\ ptask[t][p] = "release"
    /\ ptask' = [ptask EXCEPT ![t][p] = "wgdone"]
    /\ UNCHANGED <<inputs, otherv, mainv, batchv, taskv, pspawned, portSem, portWg,
                   pcloser, portResults, portClosed, openPorts, pprobes, presult>>

\* defer func() { <-portSem }()
NetworkDiscovery_PortRelease(t, p) ==
    /\ fn = "NetworkDiscovery" /\ ptask[t][p] = "release"
    /\ portSem[t] > 0
    /\ portSem' = [portSem EXCEPT ![t] = @ - 1]
    /\ ptask' = [ptask EXCEPT ![t][p] = "wgdone"]
    /\ UNCHANGED <<inputs, otherv, mainv, batchv, taskv, pspawned, portWg, pcloser,
                   portResults, portClosed, openPorts, pprobes, presult>>

\* defer portWg.Done()
NetworkDiscovery_PortDone(t, p) ==
    /\ fn = "NetworkDiscovery" /\ ptask[t][p] = "wgdone"
    /\ portWg' = [portWg EXCEPT ![t] = @ - 1]
    /\ ptask' = [ptask EXCEPT ![t][p] = "fin"]
    /\ UNCHANGED <<inputs, otherv, mainv, batchv, taskv, pspawned, portSem, pcloser,
                   portResults, portClosed, openPorts, pprobes, presult>>

\* portWg.Wait(); close(portResults)
NetworkDiscovery_PortClose(t) ==
    /\ fn = "NetworkDiscovery" /\ pcloser[t] = "wait"
    /\ portWg[t] = 0
    /\ portClosed' = [portClosed EXCEPT ![t] = TRUE]
    /\ pcloser' = [pcloser EXCEPT ![t] = "fin"]
    /\ UNCHANGED <<inputs, otherv, mainv, batchv, taskv, ptask, pspawned, portSem,
                   portWg, portResults, openPorts, pprobes, presult>>

\* for result := range portResults { openPorts = append(openPorts, result) }
NetworkDiscovery_PortReceive(t) ==
    /\ fn = "NetworkDiscovery" /\ task[t] = "pcollect"
    /\ portResults[t] # <<>>
    /\ openPorts' = [openPorts EXCEPT ![t] = Append(@, Head(portResults[t]))]
    /\ portResults' = [portResults EXCEPT ![t] = Tail(@)]
    /\ UNCHANGED <<inputs, otherv, mainv, batchv, taskv, ptask, pspawned, portSem,
                   portWg, pcloser, portClosed, pprobes, presult>>

\* faulty variant: the host task stops collecting at an empty buffer without
\* waiting for the port goroutines to finish
NetworkDiscovery_PortRangeEnd_early(t) ==
    /\ fn = "NetworkDiscovery" /\ task[t] = "pcollect"
    /\ portResults[t] = <<>>
    /\ task' = [task EXCEPT ![t] =
                    IF Len(openPorts[t]) > 0 \/ Len(ports) = 0
                    THEN "send" ELSE "release"]
    /\ UNCHANGED <<inputs, otherv, mainv, batchv, probes, outcome, result, innerv>>

\* the range loop ends; if len(openPorts) > 0 || len(ports) == 0 the host
\* is reported, otherwise the task returns
NetworkDiscovery_PortRangeEnd(t) ==
    /\ fn = "NetworkDiscovery" /\ task[t] = "pcollect"
    /\ portResults[t] = <<>> /\ portClosed[t]
    /\ task' = [task EXCEPT ![t] =
                    IF Len(openPorts[t]) > 0 \/ Len(ports) = 0
                    THEN "send" ELSE "release"]
    /\ UNCHANGED <<inputs, otherv, mainv, batchv, probes, outcome, result, innerv>>

\* results <- models.HostResult{IP: ip, Alive: true, Ports: openPorts}
NetworkDiscovery_Send(t) ==
    /\ fn = "NetworkDiscovery" /\ task[t] = "send"
    /\ IF resultsClosed
       THEN \* a send on a closed channel panics
            task' = [task EXCEPT ![t] = "panic"] /\ UNCHANGED results
       ELSE \* a send blocks while the buffer, of capacity len(batch), is full
            /\ Len(results) < BatchEnd - i
            /\ results' = Append(results, HostResult(ips[t], TRUE, openPorts[t]))
            /\ task' = [task EXCEPT ![t] = "release"]
    /\ UNCHANGED <<inputs, otherv, mainv, sem, wg, closer, resultsClosed,
                   probes, outcome, result, innerv>>

\* defer func() { <-sem }()
NetworkDiscovery_Release(t) ==
    /\ fn = "NetworkDiscovery" /\ task[t] = "release"
    /\ sem > 0
    /\ sem' = sem - 1
    /\ task' = [task EXCEPT ![t] = "wgdone"]
    /\ UNCHANGED <<inputs, otherv, mainv, wg, closer, results, resultsClosed,
                   probes, outcome, result, innerv>>

\* defer wg.Done()
NetworkDiscovery_Done(t) ==
    /\ fn = "NetworkDiscovery" /\ task[t] = "wgdone"
    /\ wg' = wg - 1
    /\ task' = [task EXCEPT ![t] = "fin"]
    /\ UNCHANGED <<inputs, otherv, mainv, sem, closer, results, resultsClosed,
                   probes, outcome, result, innerv>>

\* wg.Wait() returns when the counter is zero; close(results)
NetworkDiscovery_Close ==
    /\ fn = "NetworkDiscovery" /\ closer = "wait"
    /\ wg = 0
    /\ resultsClosed' = TRUE
    /\ closer' = "fin"
    /\ UNCHANGED <<inputs, otherv, mainv, sem, wg, results, taskv, innerv>>

\* for result := range results { batchHosts = append(batchHosts, result) }
NetworkDiscovery_Receive ==
    /\ fn = "NetworkDiscovery" /\ pc = "collect" /\ results # <<>>
    /\ batchHosts' = Append(batchHosts, Head(results))
    /\ results' = Tail(results)
    /\ UNCHANGED <<inputs, otherv, pc, i, spawned, recv, allHosts, allResults,
                   resultsMutex, ret, sem, wg, closer, resultsClosed, taskv, innerv>>

\* the range loop ends when the channel is closed and drained
NetworkDiscovery_RangeEnd ==
    /\ fn = "NetworkDiscovery" /\ pc = "collect" /\ results = <<>> /\ resultsClosed
    /\ pc' = "lock"
    /\ UNCHANGED <<inputs, otherv, i, spawned, recv, batchHosts, allHosts, allResults,
                   resultsMutex, ret, batchv, taskv, innerv>>

\* resultsMutex.Lock()
NetworkDiscovery_Lock ==
    /\ fn = "NetworkDiscovery" /\ pc = "lock" /\ ~resultsMutex
    /\ resultsMutex' = TRUE
    /\ pc' = "append"
    /\ UNCHANGED <<inputs, otherv, i, spawned, recv, batchHosts, allHosts, allResults,
                   ret, batchv, taskv, innerv>>

\* allHosts = append(allHosts, batchHosts...)
NetworkDiscovery_Append ==
    /\ fn = "NetworkDiscovery" /\ pc = "append"
    /\ allHosts' = allHosts \o batchHosts
    /\ pc' = "unlock"
    /\ UNCHANGED <<inputs, otherv, i, spawned, recv, batchHosts, allResults,
                   resultsMutex, ret, batchv, taskv, innerv>>

\* resultsMutex.Unlock(); i += batchSize
NetworkDiscovery_Unlock ==
    /\ fn = "NetworkDiscovery" /\ pc = "unlock"
    /\ resultsMutex' = FALSE
    /\ i' = i + NetworkDiscovery_batchSize
    /\ pc' = "loop"
    /\ UNCHANGED <<inputs, otherv, spawned, recv, batchHosts, allHosts, allResults,
                   ret, batchv, taskv, innerv>>

\* loop exit: sort.Slice(allHosts, CompareIPs); return allHosts
NetworkDiscovery_Return ==
    /\ fn = "NetworkDiscovery" /\ pc = "loop" /\ i >= Len(ips)
    /\ allHosts' = SortHosts(allHosts)
    /\ ret' = allHosts'
    /\ pc' = "returned"
    /\ UNCHANGED <<inputs, otherv, i, spawned, recv, batchHosts, allResults,
                   resultsMutex, batchv, taskv, innerv>>

NetworkDiscovery ==
    \/ NetworkDiscovery_BatchBegin
    \/ NetworkDiscovery_Dispatch
    \/ NetworkDiscovery_SpawnCloser
    \/ \E t \in Items : NetworkDiscovery_Acquire(t)
    \/ \E t \in Items : NetworkDiscovery_Ping(t)
    \/ \E t \in Items : NetworkDiscovery_PortDispatch(t)
    \/ \E t \in Items : NetworkDiscovery_PortSpawnCloser(t)
    \/ \E t \in Items : \E p \in PortItems : NetworkDiscovery_PortAcquire(t, p)
    \/ \E t \in Items : \E p \in PortItems : NetworkDiscovery_PortScan(t, p)
    \/ \E t \in Items : \E p \in PortItems : NetworkDiscovery_PortSend(t, p)
    \/ \E t \in Items : \E p \in PortItems : NetworkDiscovery_PortRelease(t, p)
    \/ \E t \in Items : \E p \in PortItems : NetworkDiscovery_PortDone(t, p)
    \/ \E t \in Items : NetworkDiscovery_PortClose(t)
    \/ \E t \in Items : NetworkDiscovery_PortReceive(t)
    \/ \E t \in Items : NetworkDiscovery_PortRangeEnd(t)
    \/ \E t \in Items : NetworkDiscovery_Send(t)
    \/ \E t \in Items : NetworkDiscovery_Release(t)
    \/ \E t \in Items : NetworkDiscovery_Done(t)
    \/ NetworkDiscovery_Close
    \/ NetworkDiscovery_Receive
    \/ NetworkDiscovery_RangeEnd
    \/ NetworkDiscovery_Lock
    \/ NetworkDiscovery_Append
    \/ NetworkDiscovery_Unlock
    \/ NetworkDiscovery_Return

Next == PingSweep \/ ScanPorts \/ NetworkDiscovery

Spec == Init /\ [][Next]_vars

\* the Go scheduler runs every runnable goroutine eventually
FairSpec == Spec /\ WF_vars(Next)

----------------------------------------------------------------------------
(* The comparator on its own: CompareIPs applied, in both directions, to   *)
(* every pair of dotted-quad addresses built from a few octet values       *)

HighOctets == {9, 10}
LowOctets == {0, 1, 9, 10, 100}
OctetTuples ==
    {<<a, b, c, d>> : a \in HighOctets, b \in HighOctets,
                      c \in LowOctets, d \in LowOctets}

\* the dotted-quad form of four octets
DottedQuad(o) ==
    Itoa(o[1]) \o <<".">> \o Itoa(o[2]) \o <<".">> \o Itoa(o[3]) \o <<".">> \o Itoa(o[4])

InitCompare ==
    /\ fn = "CompareIPs"
    /\ network = <<>> /\ ports = <<>> /\ ips = <<>>
    /\ SweepStart
    /\ o1 \in OctetTuples /\ o2 \in OctetTuples
    /\ ip1 = DottedQuad(o1) /\ ip2 = DottedQuad(o2)
    /\ less12 = FALSE /\ less21 = FALSE
    /\ cpc = "call"
    /\ GenerateIdle
    /\ PingIdle
    /\ ProbeIdle
    /\ SocketsIdle
    /\ ParseIdle
    /\ PoolIdle
    /\ MonitorIdle

\* sort.Slice asks less(i, j) and less(j, i) of the same pair
CompareIPs_Call ==
    /\ cpc = "call"
    /\ less12' = CompareIPs(ip1, ip2)
    /\ less21' = CompareIPs(ip2, ip1)
    /\ cpc' = "done"
    /\ UNCHANGED <<inputs, mainv, batchv, taskv, innerv, o1, o2, ip1, ip2,
                   genv, pingv, probev, sockv, parsev, poolv, monv>>

NextCompare == CompareIPs_Call

SpecCompare == InitCompare /\ [][NextCompare]_vars

----------------------------------------------------------------------------
(* The enumerator on its own: GenerateIPs applied to network               *)
(* specifications built from a few field strings and suffixes              *)

MaxFields == 5

FieldPool == {<<"0">>, <<"1", "0">>, <<"2", "5", "5">>, <<"2", "5", "6">>, <<"x">>}
SuffixPool == {Slash24, <<"/", "1", "6">>, <<"/", "3", "2">>, <<>>}

\* the fields joined by dots
RECURSIVE JoinDots(_)
JoinDots(fields) ==
    IF Len(fields) = 0 THEN <<>>
    ELSE IF Len(fields) = 1 THEN fields[1]
    ELSE fields[1] \o <<".">> \o JoinDots(Tail(fields))

InitGenerate ==
    /\ fn = "GenerateIPs"
    /\ \E n \in 1..MaxFields : gfields \in [1..n -> FieldPool]
    /\ gsuffix \in SuffixPool
    /\ network = JoinDots(gfields) \o gsuffix
    /\ ports = <<>> /\ ips = <<>>
    /\ gpc = "call"
    /\ SweepStart
    /\ CompareIdle
    /\ PingIdle
    /\ ProbeIdle
    /\ SocketsIdle
    /\ ParseIdle
    /\ PoolIdle
    /\ MonitorIdle

\* ips := utils.GenerateIPs(network)
GenerateIPs_Call ==
    /\ gpc = "call"
    /\ ips' = GenerateIPs(network)
    /\ gpc' = "done"
    /\ UNCHANGED <<fn, network, ports, mainv, batchv, taskv, innerv, cmpv,
                   gfields, gsuffix, pingv, probev, sockv, parsev,
                   poolv, monv>>

NextGenerate == GenerateIPs_Call

SpecGenerate == InitGenerate /\ [][NextGenerate]_vars

----------------------------------------------------------------------------
(* PingHostFast on its own: the calling goroutine, the connection-attempt  *)
(* goroutines, the success channel and the context.  A select with several *)
(* ready cases takes any of them; a goroutine blocked in a select is woken *)
(* by the first of its cases that becomes ready.                           *)

\* ctx, cancel := context.WithTimeout(...); success := make(chan bool, len(ports))
InitPing ==
    /\ fn = "PingHostFast"
    /\ network = <<>> /\ ports = <<>> /\ ips = <<>>
    /\ SweepStart
    /\ CompareIdle
    /\ GenerateIdle
    /\ ProbeIdle
    /\ SocketsIdle
    /\ ParseIdle
    /\ PoolIdle
    /\ MonitorIdle
    /\ hpc = "spawn"
    /\ hstarted = 0
    /\ attempt = [a \in Attempts |-> "idle"]
    /\ dialOk = [a \in Attempts |-> FALSE]
    /\ hconn = [a \in Attempts |-> "none"]
    /\ signalled = [a \in Attempts |-> FALSE]
    /\ success = 0
    /\ ctx = "live"
    /\ hret = FALSE
    /\ inTime = FALSE
    /\ late = FALSE

\* for _, port := range ports { go func(p int) {...}(port) }
PingHostFast_Go ==
    /\ hpc = "spawn" /\ hstarted < PingHostFast_ports
    /\ attempt' = [attempt EXCEPT ![hstarted + 1] = "dial"]
    /\ hstarted' = hstarted + 1
    /\ UNCHANGED <<inputs, mainv, batchv, taskv, innerv, sockv, parsev, poolv, monv, cmpv, genv, probev,
                   hpc, dialOk, hconn, signalled, success, ctx, hret, inTime, late>>

\* the loop is left; the caller arrives at its select
PingHostFast_LoopEnd ==
    /\ hpc = "spawn" /\ hstarted = PingHostFast_ports
    /\ hpc' = "select"
    /\ UNCHANGED <<inputs, mainv, batchv, taskv, innerv, sockv, parsev, poolv, monv, cmpv, genv, probev,
                   hstarted, attempt, dialOk, hconn, signalled, success, ctx,
                   hret, inTime, late>>

\* faulty variant: the goroutine goes on to signal whatever DialTimeout returned
PingHostFast_Dial_nocheck(a) ==
    /\ attempt[a] = "dial"
    /\ \E ok \in BOOLEAN :
        /\ dialOk' = [dialOk EXCEPT ![a] = ok]
        /\ hconn' = [hconn EXCEPT ![a] = IF ok THEN "open" ELSE "none"]
    /\ attempt' = [attempt EXCEPT ![a] = "close"]
    /\ UNCHANGED <<inputs, mainv, batchv, taskv, innerv, sockv, parsev, poolv, monv, cmpv, genv, probev,
                   hpc, hstarted, signalled, success, ctx, hret, inTime, late>>

\* conn, err := net.DialTimeout("tcp", address, 100ms); if err == nil {...}
PingHostFast_Dial(a) ==
    /\ attempt[a] = "dial"
    /\ \E ok \in BOOLEAN :
        /\ dialOk' = [dialOk EXCEPT ![a] = ok]
        /\ hconn' = [hconn EXCEPT ![a] = IF ok THEN "open" ELSE "none"]
        /\ attempt' = [attempt EXCEPT ![a] = IF ok THEN "close" ELSE "done"]
    /\ UNCHANGED <<inputs, mainv, batchv, taskv, innerv, sockv, parsev, poolv, monv, cmpv, genv, probev,
                   hpc, hstarted, signalled, success, ctx, hret, inTime, late>>

\* conn.Close()
PingHostFast_ConnClose(a) ==
    /\ attempt[a] = "close"
    /\ hconn' = [hconn EXCEPT ![a] = IF @ = "open" THEN "closed" ELSE @]
    /\ attempt' = [attempt EXCEPT ![a] = "signal"]
    /\ UNCHANGED <<inputs, mainv, batchv, taskv, innerv, sockv, parsev, poolv, monv, cmpv, genv, probev,
                   hpc, hstarted, dialOk, signalled, success, ctx, hret, inTime, late>>

\* faulty variant: a plain send on a channel without buffer, which waits for the
\* caller to receive
PingHostFast_Signal_blocking(a) ==
    /\ attempt[a] = "signal"
    /\ hpc = "parked"
    /\ attempt' = [attempt EXCEPT ![a] = "done"]
    /\ hpc' = "return"
    /\ hret' = TRUE
    /\ signalled' = [signalled EXCEPT ![a] = TRUE]
    /\ inTime' = (inTime \/ ctx = "live")
    /\ UNCHANGED <<inputs, mainv, batchv, taskv, innerv, sockv, parsev, poolv, monv, cmpv, genv, probev,
                   hstarted, dialOk, hconn, ctx, success, late>>

\* select { case success <- true: default: }
PingHostFast_Signal(a) ==
    /\ attempt[a] = "signal"
    /\ attempt' = [attempt EXCEPT ![a] = "done"]
    /\ IF hpc = "parked"
       THEN \* the caller waits in its select: it receives the value directly
            /\ hpc' = "return"
            /\ hret' = TRUE
            /\ signalled' = [signalled EXCEPT ![a] = TRUE]
            /\ inTime' = (inTime \/ ctx = "live")
            /\ UNCHANGED <<success, late>>
       ELSE IF success < PingHostFast_ports
       THEN \* room in the buffer
            /\ success' = success + 1
            /\ signalled' = [signalled EXCEPT ![a] = TRUE]
            /\ inTime' = (inTime \/ ctx = "live")
            /\ late' = (late \/ hpc \in {"return", "returned"})
            /\ UNCHANGED <<hpc, hret>>
       ELSE \* default:
            UNCHANGED <<hpc, hret, signalled, success, inTime, late>>
    /\ UNCHANGED <<inputs, mainv, batchv, taskv, innerv, sockv, parsev, poolv, monv, cmpv, genv, probev,
                   hstarted, dialOk, hconn, ctx>>

\* the timer of context.WithTimeout fires: ctx.Done() is closed
PingHostFast_Timeout ==
    /\ ctx = "live"
    /\ ctx' = "expired"
    /\ IF hpc = "parked"
       THEN hpc' = "return" /\ hret' = FALSE
       ELSE UNCHANGED <<hpc, hret>>
    /\ UNCHANGED <<inputs, mainv, batchv, taskv, innerv, sockv, parsev, poolv, monv, cmpv, genv, probev,
                   hstarted, attempt, dialOk, hconn, signalled, success, inTime, late>>

\* select { case <-success: return true; case <-ctx.Done(): return false }
PingHostFast_Select ==
    /\ hpc = "select"
    /\ \/ /\ success > 0
          /\ success' = success - 1
          /\ hret' = TRUE
          /\ hpc' = "return"
       \/ /\ ctx = "expired"
          /\ hret' = FALSE
          /\ hpc' = "return"
          /\ UNCHANGED success
       \/ /\ success = 0 /\ ctx = "live"
          /\ hpc' = "parked"
          /\ UNCHANGED <<success, hret>>
    /\ UNCHANGED <<inputs, mainv, batchv, taskv, innerv, sockv, parsev, poolv, monv, cmpv, genv, probev,
                   hstarted, attempt, dialOk, hconn, signalled, ctx, inTime, late>>

\* defer cancel(); the call returns hret
PingHostFast_Return ==
    /\ hpc = "return"
    /\ ctx' = IF ctx = "live" THEN "canceled" ELSE ctx
    /\ hpc' = "returned"
    /\ UNCHANGED <<inputs, mainv, batchv, taskv, innerv, sockv, parsev, poolv, monv, cmpv, genv, probev,
                   hstarted, attempt, dialOk, hconn, signalled, success, hret, inTime,
                   late>>

PingHostFast ==
    \/ PingHostFast_Go
    \/ PingHostFast_LoopEnd
    \/ \E a \in Attempts : PingHostFast_Dial(a)
    \/ \E a \in Attempts : PingHostFast_ConnClose(a)
    \/ \E a \in Attempts : PingHostFast_Signal(a)
    \/ PingHostFast_Timeout
    \/ PingHostFast_Select
    \/ PingHostFast_Return

NextPing == PingHostFast

SpecPing == InitPing /\ [][NextPing]_vars

----------------------------------------------------------------------------
(* The port prober on its own: ScanPort and ScanPortFast step by step,     *)
(* with the banner reader they call, against a peer whose behaviour on a   *)
(* read is an input                                                        *)

MaxEdge == 4

\* the bytes a peer sends: every sequence of up to MaxEdge bytes out of a
\* letter, a space, a carriage return and a line feed, with a run of
\* letters inserted in its middle that brings the text to the length
\* limits of the two profiles
ByteAlphabet == {"a", " ", "CR", "LF"}
FillLengths == {0, 38, 40, 48, 50, 510, 1022}
Edges == UNION {[1..n -> ByteAlphabet] : n \in 0..MaxEdge}
Fill(k) == [j \in 1..k |-> "a"]
PeerData ==
    {SubSeq(e, 1, Len(e) \div 2) \o Fill(k) \o SubSeq(e, Len(e) \div 2 + 1, Len(e)) :
        e \in Edges, k \in FillLengths}
ProbePeers ==
    {[err |-> TRUE, data |-> <<>>]} \cup {[err |-> FALSE, data |-> d] : d \in PeerData}
ProbePorts == {21, 22, 25, 80, 443, 8080, 9999}

\* make([]byte, 1024) and make([]byte, 512)
BufferSize == IF sfn = "ScanPort" THEN 1024 ELSE 512
\* len(banner) > 50 and len(banner) > 40
BannerLimit == IF sfn = "ScanPort" THEN 50 ELSE 40

InitProbe ==
    /\ fn = "ScanPort"
    /\ network = <<>> /\ ports = <<>> /\ ips = <<>>
    /\ SweepStart
    /\ CompareIdle
    /\ GenerateIdle
    /\ PingIdle
    /\ SocketsIdle
    /\ ParseIdle
    /\ PoolIdle
    /\ MonitorIdle
    /\ sfn \in {"ScanPort", "ScanPortFast"}
    /\ sport \in ProbePorts
    /\ speer \in ProbePeers
    /\ spc = "dial"
    /\ conn = "none"
    /\ connOps = <<>>
    /\ pservice = ""
    /\ gbanner = <<>>
    /\ bannerStr = <<>>
    /\ sresult = ZeroPortResult

\* faulty variant: the service name is looked up before the dial and reported
\* also for a port that did not answer
ScanPort_Dial_lookupfirst ==
    /\ spc = "dial"
    /\ \E ok \in BOOLEAN :
        IF ok
        THEN /\ conn' = "open"
             /\ spc' = "lookup"
             /\ UNCHANGED sresult
        ELSE /\ sresult' = PortResult(sport, FALSE, ServiceOf(sport), <<>>)
             /\ spc' = "returned"
             /\ UNCHANGED conn
    /\ UNCHANGED <<inputs, mainv, batchv, taskv, innerv, sockv, parsev, poolv, monv, cmpv, genv, pingv,
                   sfn, sport, speer, connOps, pservice, gbanner, bannerStr>>

\* conn, err := net.DialTimeout("tcp", target, timeout)
\* if err != nil { return models.PortResult{Port: port, Open: false} }
ScanPort_Dial ==
    /\ spc = "dial"
    /\ \E ok \in BOOLEAN :
        IF ok
        THEN /\ conn' = "open"
             /\ spc' = "lookup"
             /\ UNCHANGED sresult
        ELSE /\ sresult' = PortResult(sport, FALSE, "", <<>>)
             /\ spc' = "returned"
             /\ UNCHANGED conn
    /\ UNCHANGED <<inputs, mainv, batchv, taskv, innerv, sockv, parsev, poolv, monv, cmpv, genv, pingv,
                   sfn, sport, speer, connOps, pservice, gbanner, bannerStr>>

\* service := models.CommonServices[port]; the banner reader is entered
ScanPort_Lookup ==
    /\ spc = "lookup"
    /\ pservice' = ServiceOf(sport)
    /\ spc' = "deadline"
    /\ UNCHANGED <<inputs, mainv, batchv, taskv, innerv, sockv, parsev, poolv, monv, cmpv, genv, pingv,
                   sfn, sport, speer, conn, connOps, gbanner, bannerStr, sresult>>

\* conn.SetReadDeadline(...)
GrabBanner_SetReadDeadline ==
    /\ spc = "deadline"
    /\ connOps' = Append(connOps, "SetReadDeadline")
    /\ spc' = "switch"
    /\ UNCHANGED <<inputs, mainv, batchv, taskv, innerv, sockv, parsev, poolv, monv, cmpv, genv, pingv,
                   sfn, sport, speer, conn, pservice, gbanner, bannerStr, sresult>>

\* faulty variant: the request is written on every port that is read
GrabBanner_Switch_writeall ==
    /\ spc = "switch"
    /\ IF sport = 443 /\ sfn = "ScanPortFast"
       THEN /\ bannerStr' = <<>>
            /\ spc' = "grabbed"
            /\ UNCHANGED connOps
       ELSE /\ connOps' = Append(connOps, "Write")
            /\ spc' = "read"
            /\ UNCHANGED bannerStr
    /\ UNCHANGED <<inputs, mainv, batchv, taskv, innerv, sockv, parsev, poolv, monv, cmpv, genv, pingv,
                   sfn, sport, speer, conn, pservice, gbanner, sresult>>

\* switch port: case 80, 8080 writes the request; only GrabBannerFast has
\* case 443, which returns ""
GrabBanner_Switch ==
    /\ spc = "switch"
    /\ IF sport \in {80, 8080}
       THEN /\ connOps' = Append(connOps, "Write")
            /\ spc' = "read"
            /\ UNCHANGED bannerStr
       ELSE IF sport = 443 /\ sfn = "ScanPortFast"
       THEN /\ bannerStr' = <<>>
            /\ spc' = "grabbed"
            /\ UNCHANGED connOps
       ELSE /\ spc' = "read"
            /\ UNCHANGED <<connOps, bannerStr>>
    /\ UNCHANGED <<inputs, mainv, batchv, taskv, innerv, sockv, parsev, poolv, monv, cmpv, genv, pingv,
                   sfn, sport, speer, conn, pservice, gbanner, sresult>>

\* n, err := conn.Read(buffer); if err != nil { return "" }
\* banner := string(buffer[:n])
GrabBanner_Read ==
    /\ spc = "read"
    /\ connOps' = Append(connOps, "Read")
    /\ IF speer.err
       THEN /\ bannerStr' = <<>>
            /\ spc' = "grabbed"
            /\ UNCHANGED gbanner
       ELSE /\ gbanner' = ReadInto(speer.data, BufferSize)
            /\ spc' = "normalize"
            /\ UNCHANGED bannerStr
    /\ UNCHANGED <<inputs, mainv, batchv, taskv, innerv, sockv, parsev, poolv, monv, cmpv, genv, pingv,
                   sfn, sport, speer, conn, pservice, sresult>>

\* the two strings.ReplaceAll and strings.TrimSpace
GrabBanner_Normalize ==
    /\ spc = "normalize"
    /\ gbanner' = TrimSpace(ReplaceLF(ReplaceCRLF(gbanner)))
    /\ spc' = "truncate"
    /\ UNCHANGED <<inputs, mainv, batchv, taskv, innerv, sockv, parsev, poolv, monv, cmpv, genv, pingv,
                   sfn, sport, speer, conn, connOps, pservice, bannerStr, sresult>>

\* faulty variant: the cut keeps one byte more than the limit
GrabBanner_Truncate_offbyone ==
    /\ spc = "truncate"
    /\ gbanner' = IF Len(gbanner) > BannerLimit
                  THEN SubSeq(gbanner, 1, BannerLimit + 1) \o Ellipsis
                  ELSE gbanner
    /\ bannerStr' = gbanner'
    /\ spc' = "grabbed"
    /\ UNCHANGED <<inputs, mainv, batchv, taskv, innerv, sockv, parsev, poolv, monv, cmpv, genv, pingv,
                   sfn, sport, speer, conn, connOps, pservice, sresult>>

\* if len(banner) > limit { banner = banner[:limit] + "..." }; return banner
GrabBanner_Truncate ==
    /\ spc = "truncate"
    /\ gbanner' = IF Len(gbanner) > BannerLimit
                  THEN SubSeq(gbanner, 1, BannerLimit) \o Ellipsis
                  ELSE gbanner
    /\ bannerStr' = gbanner'
    /\ spc' = "grabbed"
    /\ UNCHANGED <<inputs, mainv, batchv, taskv, innerv, sockv, parsev, poolv, monv, cmpv, genv, pingv,
                   sfn, sport, speer, conn, connOps, pservice, sresult>>

\* faulty variant: a port whose banner could not be read is reported closed
ScanPort_Return_needsbanner ==
    /\ spc = "grabbed"
    /\ sresult' = PortResult(sport, bannerStr # <<>>, pservice, bannerStr)
    /\ connOps' = Append(connOps, "Close")
    /\ conn' = "closed"
    /\ spc' = "returned"
    /\ UNCHANGED <<inputs, mainv, batchv, taskv, innerv, sockv, parsev, poolv, monv, cmpv, genv, pingv,
                   sfn, sport, speer, pservice, gbanner, bannerStr>>

\* faulty variant: the connection is not closed at the return
ScanPort_Return_noclose ==
    /\ spc = "grabbed"
    /\ sresult' = PortResult(sport, TRUE, pservice, bannerStr)
    /\ spc' = "returned"
    /\ UNCHANGED <<inputs, mainv, batchv, taskv, innerv, sockv, parsev, poolv, monv, cmpv, genv, pingv,
                   sfn, sport, speer, conn, connOps, pservice, gbanner, bannerStr>>

\* return models.PortResult{...}, and the deferred conn.Close()
ScanPort_Return ==
    /\ spc = "grabbed"
    /\ sresult' = PortResult(sport, TRUE, pservice, bannerStr)
    /\ connOps' = Append(connOps, "Close")
    /\ conn' = "closed"
    /\ spc' = "returned"
    /\ UNCHANGED <<inputs, mainv, batchv, taskv, innerv, sockv, parsev, poolv, monv, cmpv, genv, pingv,
                   sfn, sport, speer, pservice, gbanner, bannerStr>>

NextProbe ==
    \/ ScanPort_Dial
    \/ ScanPort_Lookup
    \/ GrabBanner_SetReadDeadline
    \/ GrabBanner_Switch
    \/ GrabBanner_Read
    \/ GrabBanner_Normalize
    \/ GrabBanner_Truncate
    \/ ScanPort_Return

SpecProbe == InitProbe /\ [][NextProbe]_vars

----------------------------------------------------------------------------
(* NetworkDiscovery with the connection attempts of its liveness probes.   *)
(* The host task's call of PingHostFast is taken apart: the call starts    *)
(* one attempt goroutine per probed port, every attempt's dial returns on  *)
(* its own, and the call returns true as soon as one attempt has signalled *)
(* success, leaving the other attempts to run to their end, or false when  *)
(* no attempt is left (the 100 ms of a dial end before the 200 ms of the   *)
(* call).  The discovery is one with an empty port list, in which a host  *)
(* found alive starts no port goroutine and is reported at once.           *)

MaxSockHosts == 4

InitSockets ==
    /\ fn = "NetworkDiscovery"
    /\ network = Net24
    /\ ports = <<>>
    /\ ips = Window(GenerateIPs(network), MaxSockHosts)
    /\ SweepStart
    /\ CompareIdle
    /\ GenerateIdle
    /\ PingIdle
    /\ ProbeIdle
    /\ SocketsIdle
    /\ ParseIdle
    /\ PoolIdle
    /\ MonitorIdle

\* PingHostFast: for _, port := range ports { go func(p string) {...}(port) }
NetworkDiscovery_PingGo(t) ==
    /\ fn = "NetworkDiscovery" /\ task[t] = "run"
    /\ task' = [task EXCEPT ![t] = "ping"]
    /\ dialing' = [dialing EXCEPT ![t] = PingHostFast_ports]
    /\ UNCHANGED <<inputs, mainv, batchv, probes, outcome, result, innerv,
                   cmpv, genv, pingv, probev, hit, parsev, poolv, monv>>

\* an attempt goroutine: conn, err := net.DialTimeout(...) returns; on success
\* conn.Close() and the non-blocking send on the call's success channel
NetworkDiscovery_PingDial(t) ==
    /\ fn = "NetworkDiscovery" /\ dialing[t] > 0
    /\ dialing' = [dialing EXCEPT ![t] = @ - 1]
    /\ \E dialed \in BOOLEAN :
        hit' = [hit EXCEPT ![t] = @ \/ dialed]
    /\ UNCHANGED <<inputs, mainv, batchv, taskv, innerv,
                   cmpv, genv, pingv, probev, parsev, poolv, monv>>

\* PingHostFast: select { case <-success: return true; case <-ctx.Done():
\* return false }, then `if !PingHostFast(ip) { return }` of the host task
NetworkDiscovery_PingReturn(t) ==
    /\ fn = "NetworkDiscovery" /\ task[t] = "ping"
    /\ hit[t] \/ dialing[t] = 0
    /\ outcome' = [outcome EXCEPT ![t] = hit[t]]
    /\ task' = [task EXCEPT ![t] = IF hit[t] THEN "pdispatch" ELSE "release"]
    /\ probes' = [probes EXCEPT ![t] = @ + 1]
    /\ UNCHANGED <<inputs, otherv, mainv, batchv, result, innerv>>

NextSockets ==
    \/ NetworkDiscovery_BatchBegin
    \/ NetworkDiscovery_Dispatch
    \/ NetworkDiscovery_SpawnCloser
    \/ \E t \in Items : NetworkDiscovery_Acquire(t)
    \/ \E t \in Items : NetworkDiscovery_PingGo(t)
    \/ \E t \in Items : NetworkDiscovery_PingDial(t)
    \/ \E t \in Items : NetworkDiscovery_PingReturn(t)
    \/ \E t \in Items : NetworkDiscovery_PortSpawnCloser(t)
    \/ \E t \in Items : NetworkDiscovery_PortClose(t)
    \/ \E t \in Items : NetworkDiscovery_PortRangeEnd(t)
    \/ \E t \in Items : NetworkDiscovery_Send(t)
    \/ \E t \in Items : NetworkDiscovery_Release(t)
    \/ \E t \in Items : NetworkDiscovery_Done(t)
    \/ NetworkDiscovery_Close
    \/ NetworkDiscovery_Receive
    \/ NetworkDiscovery_RangeEnd
    \/ NetworkDiscovery_Lock
    \/ NetworkDiscovery_Append
    \/ NetworkDiscovery_Unlock
    \/ NetworkDiscovery_Return

SpecSockets == InitSockets /\ [][NextSockets]_vars

----------------------------------------------------------------------------
(* pkg/utils.ParsePortRange on its own                                     *)

\* strings.Contains(s, c) for a one-byte c
Contains(s, c) == \E k \in 1..Len(s) : s[k] = c

\* strconv.Atoi: an optional sign and then decimal digits, at least one, and
\* nothing else; err is set otherwise (the inputs stay far from the int range)
Atoi(s) ==
    LET signed == s # <<>> /\ s[1] \in {"+", "-"}
        body == IF signed THEN Tail(s) ELSE s
        ok == body # <<>> /\ \A k \in 1..Len(body) : IsDigit(body[k])
    IN [err |-> ~ok,
        n |-> IF ~ok THEN 0
              ELSE IF signed /\ s[1] = "-" THEN 0 - Sscanf(body) ELSE Sscanf(body)]

ParsePortRange(text) ==
    IF Contains(text, "-")
    THEN LET parts == Split(text, "-")
         IN IF Len(parts) = 2
            THEN LET start == Atoi(TrimSpace(parts[1]))
                     end == Atoi(TrimSpace(parts[2]))
                 IN IF ~start.err /\ ~end.err /\ start.n <= end.n
                    THEN [k \in 1..(end.n - start.n + 1) |-> start.n + k - 1]
                    ELSE <<>>
            ELSE <<>>
    ELSE LET parts == Split(text, ",")
             Valid(k) ==
                LET port == Atoi(TrimSpace(parts[k]))
                IN ~port.err /\ port.n > 0 /\ port.n <= 65535
             kept == SelectSeq([k \in 1..Len(parts) |-> k], Valid)
         IN [j \in 1..Len(kept) |-> Atoi(TrimSpace(parts[kept[j]])).n]

MaxParts == 3
MaxSpan == 4

\* the pieces the texts are made of
PiecePool ==
    {<<"0">>, <<"1">>, <<"3">>, <<"8", "0">>, <<"6", "5", "5", "3", "5">>,
     <<"6", "5", "5", "3", "7">>, <<"x">>, <<>>, <<" ", "2", "2", " ">>}

RECURSIVE Join(_, _)
Join(pieces, sep) ==
    IF Len(pieces) = 1 THEN pieces[1]
    ELSE pieces[1] \o <<sep>> \o Join(Tail(pieces), sep)

\* a range is not wider than MaxSpan ports
NarrowRange(text) ==
    LET parts == Split(text, "-")
    IN (/\ Len(parts) = 2
        /\ ~Atoi(TrimSpace(parts[1])).err
        /\ ~Atoi(TrimSpace(parts[2])).err) =>
            Atoi(TrimSpace(parts[2])).n - Atoi(TrimSpace(parts[1])).n < MaxSpan

InitParse ==
    /\ fn = "ParsePortRange"
    /\ network = <<>> /\ ports = <<>> /\ ips = <<>>
    /\ SweepStart
    /\ CompareIdle
    /\ GenerateIdle
    /\ PingIdle
    /\ ProbeIdle
    /\ SocketsIdle
    /\ PoolIdle
    /\ MonitorIdle
    /\ \E n \in 1..MaxParts : \E pieces \in [1..n -> PiecePool] :
        \E sep \in {"-", ","} : portRange = Join(pieces, sep)
    /\ NarrowRange(portRange)
    /\ rpc = "call"

\* ports := utils.ParsePortRange(portRange)
ParsePortRange_Call ==
    /\ rpc = "call"
    /\ ports' = ParsePortRange(portRange)
    /\ rpc' = "done"
    /\ UNCHANGED <<fn, network, ips, mainv, batchv, taskv, innerv, cmpv, genv, pingv,
                   probev, sockv, poolv, monv, portRange>>

NextParse == ParsePortRange_Call

SpecParse == InitParse /\ [][NextParse]_vars

----------------------------------------------------------------------------
(* pkg/scanner.NetworkDiscoveryWorkerPool: numWorkers goroutines range     *)
(* over the jobs channel, a feeder goroutine sends the addresses and       *)
(* closes it, a closer goroutine waits for the workers and closes results, *)
(* and the caller ranges over results.  The state of the work on an        *)
(* address (task, probes, outcome and the port goroutines) is kept per     *)
(* address, as in the batch sweeps.                                        *)

MaxPoolHosts == 5
MaxPoolPorts == 2

\* the more ports, the fewer addresses: with two ports one address per
\* worker, with more a single address
PoolHostCount(portList) ==
    CASE Len(portList) = 0 -> MaxPoolHosts
      [] Len(portList) = 1 -> MaxPoolHosts - 2
      [] Len(portList) = 2 -> numWorkers
      [] OTHER -> 1

InitPool ==
    /\ fn = "NetworkDiscoveryWorkerPool"
    /\ network = Net24
    /\ ports \in PortLists(MaxPoolPorts)
    /\ ips = Window(GenerateIPs(network), PoolHostCount(ports))
    /\ SweepStart
    /\ CompareIdle
    /\ GenerateIdle
    /\ PingIdle
    /\ ProbeIdle
    /\ SocketsIdle
    /\ ParseIdle
    /\ MonitorIdle
    /\ worker = [w \in Workers |-> 0]
    /\ wpc = [w \in Workers |-> "none"]
    /\ jobs = <<>>
    /\ jobsClosed = FALSE
    /\ fed = 0
    /\ feeder = "none"
    /\ taken = [t \in Items |-> 0]

\* for i := 0; i < numWorkers; i++ { wg.Add(1); go func() {...}() }
WorkerPool_StartWorker ==
    /\ fn = "NetworkDiscoveryWorkerPool" /\ pc = "loop" /\ spawned < numWorkers
    /\ wg' = wg + 1
    /\ wpc' = [wpc EXCEPT ![spawned + 1] = "range"]
    /\ spawned' = spawned + 1
    /\ UNCHANGED <<inputs, idlev, monv, pc, i, recv, batchHosts, allHosts, allResults,
                   resultsMutex, ret, sem, closer, results, resultsClosed, taskv,
                   innerv, worker, jobs, jobsClosed, fed, feeder, taken>>

\* go func() { for _, ip := range ips { jobs <- ip }; close(jobs) }()
WorkerPool_StartFeeder ==
    /\ fn = "NetworkDiscoveryWorkerPool" /\ pc = "loop" /\ spawned = numWorkers
    /\ feeder' = "run"
    /\ pc' = "dispatch"
    /\ UNCHANGED <<inputs, idlev, monv, i, spawned, recv, batchHosts, allHosts,
                   allResults, resultsMutex, ret, batchv, taskv, innerv,
                   worker, wpc, jobs, jobsClosed, fed, taken>>

\* go func() { wg.Wait(); close(results) }(); var hosts
WorkerPool_StartCloser ==
    /\ fn = "NetworkDiscoveryWorkerPool" /\ pc = "dispatch"
    /\ closer' = "wait"
    /\ pc' = "collect"
    /\ UNCHANGED <<inputs, idlev, monv, poolv, i, spawned, recv, batchHosts, allHosts,
                   allResults, resultsMutex, ret, sem, wg, results, resultsClosed,
                   taskv, innerv>>

\* jobs <- ip: blocks while the buffer, of capacity bufferSize, is full
WorkerPool_Feed ==
    /\ fn = "NetworkDiscoveryWorkerPool" /\ feeder = "run" /\ fed < Len(ips)
    /\ Len(jobs) < bufferSize
    /\ jobs' = Append(jobs, fed + 1)
    /\ fed' = fed + 1
    /\ UNCHANGED <<inputs, idlev, monv, mainv, batchv, taskv, innerv,
                   worker, wpc, jobsClosed, feeder, taken>>

\* close(jobs)
WorkerPool_CloseJobs ==
    /\ fn = "NetworkDiscoveryWorkerPool" /\ feeder = "run" /\ fed = Len(ips)
    /\ jobsClosed' = TRUE
    /\ feeder' = "fin"
    /\ UNCHANGED <<inputs, idlev, monv, mainv, batchv, taskv, innerv,
                   worker, wpc, jobs, fed, taken>>

\* for ip := range jobs: the worker receives an address
WorkerPool_Take(w) ==
    /\ fn = "NetworkDiscoveryWorkerPool" /\ wpc[w] = "range" /\ jobs # <<>>
    /\ worker' = [worker EXCEPT ![w] = Head(jobs)]
    /\ jobs' = Tail(jobs)
    /\ wpc' = [wpc EXCEPT ![w] = "busy"]
    /\ task' = [task EXCEPT ![Head(jobs)] = "run"]
    /\ taken' = [taken EXCEPT ![Head(jobs)] = @ + 1]
    /\ UNCHANGED <<inputs, idlev, monv, mainv, batchv, probes, outcome, result,
                   innerv, jobsClosed, fed, feeder>>

\* the range loop ends when jobs is closed and drained; defer wg.Done()
WorkerPool_Exit(w) ==
    /\ fn = "NetworkDiscoveryWorkerPool" /\ wpc[w] = "range"
    /\ jobs = <<>> /\ jobsClosed
    /\ wpc' = [wpc EXCEPT ![w] = "exited"]
    /\ wg' = wg - 1
    /\ UNCHANGED <<inputs, idlev, monv, mainv, sem, closer, results, resultsClosed,
                   taskv, innerv, worker, jobs, jobsClosed, fed, feeder, taken>>

\* if !PingHostFast(ip) { continue }; otherwise portWg and portChan are made
WorkerPool_Ping(w) ==
    /\ fn = "NetworkDiscoveryWorkerPool" /\ wpc[w] = "busy"
    /\ task[worker[w]] = "run"
    /\ \E alive \in BOOLEAN :
        /\ outcome' = [outcome EXCEPT ![worker[w]] = alive]
        /\ task' = [task EXCEPT ![worker[w]] = IF alive THEN "pdispatch" ELSE "fin"]
        /\ wpc' = [wpc EXCEPT ![w] = IF alive THEN "busy" ELSE "range"]
    /\ probes' = [probes EXCEPT ![worker[w]] = @ + 1]
    /\ UNCHANGED <<inputs, idlev, monv, mainv, batchv, result, innerv,
                   worker, jobs, jobsClosed, fed, feeder, taken>>

\* for _, port := range ports { portWg.Add(1); go func(port) {...}(port) }
WorkerPool_PortDispatch(w) ==
    /\ fn = "NetworkDiscoveryWorkerPool" /\ wpc[w] = "busy"
    /\ task[worker[w]] = "pdispatch"
    /\ pspawned[worker[w]] < Len(ports)
    /\ portWg' = [portWg EXCEPT ![worker[w]] = @ + 1]
    /\ ptask' = [ptask EXCEPT ![worker[w]][pspawned[worker[w]] + 1] = "run"]
    /\ pspawned' = [pspawned EXCEPT ![worker[w]] = @ + 1]
    /\ UNCHANGED <<inputs, idlev, monv, poolv, mainv, batchv, taskv, portSem, pcloser,
                   portResults, portClosed, openPorts, pprobes, presult>>

\* go func() { portWg.Wait(); close(portChan) }()
WorkerPool_PortSpawnCloser(w) ==
    /\ fn = "NetworkDiscoveryWorkerPool" /\ wpc[w] = "busy"
    /\ task[worker[w]] = "pdispatch"
    /\ pspawned[worker[w]] = Len(ports)
    /\ pcloser' = [pcloser EXCEPT ![worker[w]] = "wait"]
    /\ task' = [task EXCEPT ![worker[w]] = "pcollect"]
    /\ UNCHANGED <<inputs, idlev, monv, poolv, mainv, batchv, probes, outcome, result,
                   ptask, pspawned, portSem, portWg, portResults, portClosed,
                   openPorts, pprobes, presult>>

\* result := ScanPortFast(ip, port)
WorkerPool_PortScan(t, p) ==
    /\ fn = "NetworkDiscoveryWorkerPool" /\ ptask[t][p] = "run"
    /\ \E dialed \in BOOLEAN :
        presult' = [presult EXCEPT ![t][p] = ScanPortFast(dialed, ports[p])]
    /\ ptask' = [ptask EXCEPT ![t][p] =
                    IF presult'[t][p].Open THEN "send" ELSE "wgdone"]
    /\ pprobes' = [pprobes EXCEPT ![t][p] = @ + 1]
    /\ UNCHANGED <<inputs, idlev, monv, poolv, mainv, batchv, taskv, pspawned, portSem,
                   portWg, pcloser, portResults, portClosed, openPorts>>

\* if result.Open { portChan <- result }
WorkerPool_PortSend(t, p) ==
    /\ fn = "NetworkDiscoveryWorkerPool" /\ ptask[t][p] = "send"
    /\ IF portClosed[t]
       THEN ptask' = [ptask EXCEPT ![t][p] = "panic"] /\ UNCHANGED portResults
       ELSE /\ Len(portResults[t]) < Len(ports)
            /\ portResults' = [portResults EXCEPT ![t] = Append(@, presult[t][p])]
            /\ ptask' = [ptask EXCEPT ![t][p] = "wgdone"]
    /\ UNCHANGED <<inputs, idlev, monv, poolv, mainv, batchv, taskv, pspawned, portSem,
                   portWg, pcloser, portClosed, openPorts, pprobes, presult>>

\* defer portWg.Done()
WorkerPool_PortDone(t, p) ==
    /\ fn = "NetworkDiscoveryWorkerPool" /\ ptask[t][p] = "wgdone"
    /\ portWg' = [portWg EXCEPT ![t] = @ - 1]
    /\ ptask' = [ptask EXCEPT ![t][p] = "fin"]
    /\ UNCHANGED <<inputs, idlev, monv, poolv, mainv, batchv, taskv, pspawned, portSem,
                   pcloser, portResults, portClosed, openPorts, pprobes, presult>>

\* portWg.Wait(); close(portChan)
WorkerPool_PortClose(t) ==
    /\ fn = "NetworkDiscoveryWorkerPool" /\ pcloser[t] = "wait"
    /\ portWg[t] = 0
    /\ portClosed' = [portClosed EXCEPT ![t] = TRUE]
    /\ pcloser' = [pcloser EXCEPT ![t] = "fin"]
    /\ UNCHANGED <<inputs, idlev, monv, poolv, mainv, batchv, taskv, ptask, pspawned,
                   portSem, portWg, portResults, openPorts, pprobes, presult>>

\* for result := range portChan { portResults = append(portResults, result) }
WorkerPool_PortReceive(w) ==
    /\ fn = "NetworkDiscoveryWorkerPool" /\ wpc[w] = "busy"
    /\ task[worker[w]] = "pcollect"
    /\ portResults[worker[w]] # <<>>
    /\ openPorts' = [openPorts EXCEPT ![worker[w]] =
                        Append(@, Head(portResults[worker[w]]))]
    /\ portResults' = [portResults EXCEPT ![worker[w]] = Tail(@)]
    /\ UNCHANGED <<inputs, idlev, monv, poolv, mainv, batchv, taskv, ptask, pspawned,
                   portSem, portWg, pcloser, portClosed, pprobes, presult>>

\* the range loop over portChan ends; if len(portResults) > 0 the host is
\* sent, otherwise the worker goes on to its next address
WorkerPool_PortRangeEnd(w) ==
    /\ fn = "NetworkDiscoveryWorkerPool" /\ wpc[w] = "busy"
    /\ task[worker[w]] = "pcollect"
    /\ portResults[worker[w]] = <<>> /\ portClosed[worker[w]]
    /\ IF Len(openPorts[worker[w]]) > 0
       THEN /\ task' = [task EXCEPT ![worker[w]] = "send"]
            /\ UNCHANGED wpc
       ELSE /\ task' = [task EXCEPT ![worker[w]] = "fin"]
            /\ wpc' = [wpc EXCEPT ![w] = "range"]
    /\ UNCHANGED <<inputs, idlev, monv, mainv, batchv, probes, outcome, result,
                   innerv, worker, jobs, jobsClosed, fed, feeder, taken>>

\* results <- models.HostResult{IP: ip, Alive: true, Ports: portResults}:
\* blocks while the buffer, of capacity bufferSize, is full
WorkerPool_Send(w) ==
    /\ fn = "NetworkDiscoveryWorkerPool" /\ wpc[w] = "busy"
    /\ task[worker[w]] = "send"
    /\ IF resultsClosed
       THEN /\ task' = [task EXCEPT ![worker[w]] = "panic"]
            /\ UNCHANGED <<results, wpc>>
       ELSE /\ Len(results) < bufferSize
            /\ results' = Append(results,
                    HostResult(ips[worker[w]], TRUE, openPorts[worker[w]]))
            /\ task' = [task EXCEPT ![worker[w]] = "fin"]
            /\ wpc' = [wpc EXCEPT ![w] = "range"]
    /\ UNCHANGED <<inputs, idlev, monv, mainv, sem, wg, closer, resultsClosed,
                   probes, outcome, result, innerv, worker, jobs, jobsClosed, fed,
                   feeder, taken>>

\* variant: close(results) without waiting for the workers
WorkerPool_Close_nowait ==
    /\ fn = "NetworkDiscoveryWorkerPool" /\ closer = "wait"
    /\ resultsClosed' = TRUE
    /\ closer' = "fin"
    /\ UNCHANGED <<inputs, idlev, monv, poolv, mainv, sem, wg, results, taskv, innerv>>

\* wg.Wait(); close(results)
WorkerPool_Close ==
    /\ fn = "NetworkDiscoveryWorkerPool" /\ closer = "wait"
    /\ wg = 0
    /\ resultsClosed' = TRUE
    /\ closer' = "fin"
    /\ UNCHANGED <<inputs, idlev, monv, poolv, mainv, sem, wg, results, taskv, innerv>>

\* for result := range results { hosts = append(hosts, result) }
WorkerPool_Receive ==
    /\ fn = "NetworkDiscoveryWorkerPool" /\ pc = "collect" /\ results # <<>>
    /\ allHosts' = Append(allHosts, Head(results))
    /\ results' = Tail(results)
    /\ UNCHANGED <<inputs, idlev, monv, poolv, pc, i, spawned, recv, batchHosts,
                   allResults, resultsMutex, ret, sem, wg, closer, resultsClosed,
                   taskv, innerv>>

\* the range loop ends when results is closed and drained;
\* sort.Slice(hosts, CompareIPs); return hosts
WorkerPool_Return ==
    /\ fn = "NetworkDiscoveryWorkerPool" /\ pc = "collect"
    /\ results = <<>> /\ resultsClosed
    /\ allHosts' = SortHosts(allHosts)
    /\ ret' = allHosts'
    /\ pc' = "returned"
    /\ UNCHANGED <<inputs, idlev, monv, poolv, i, spawned, recv, batchHosts,
                   allResults, resultsMutex, batchv, taskv, innerv>>

NextPool ==
    \/ WorkerPool_StartWorker
    \/ WorkerPool_StartFeeder
    \/ WorkerPool_StartCloser
    \/ WorkerPool_Feed
    \/ WorkerPool_CloseJobs
    \/ \E w \in Workers : WorkerPool_Take(w)
    \/ \E w \in Workers : WorkerPool_Exit(w)
    \/ \E w \in Workers : WorkerPool_Ping(w)
    \/ \E w \in Workers : WorkerPool_PortDispatch(w)
    \/ \E w \in Workers : WorkerPool_PortSpawnCloser(w)
    \/ \E t \in Items : \E p \in PortItems : WorkerPool_PortScan(t, p)
    \/ \E t \in Items : \E p \in PortItems : WorkerPool_PortSend(t, p)
    \/ \E t \in Items : \E p \in PortItems : WorkerPool_PortDone(t, p)
    \/ \E t \in Items : WorkerPool_PortClose(t)
    \/ \E w \in Workers : WorkerPool_PortReceive(w)
    \/ \E w \in Workers : WorkerPool_PortRangeEnd(w)
    \/ \E w \in Workers : WorkerPool_Send(w)
    \/ WorkerPool_Close
    \/ WorkerPool_Receive
    \/ WorkerPool_Return

SpecPool == InitPool /\ [][NextPool]_vars

----------------------------------------------------------------------------
(* pkg/monitor: MonitorPorts and CheckHosts.  The hosts argument is held   *)
(* in ips, the ports argument in ports.  The ticker is the runtime's: its  *)
(* channel holds one tick, and a tick that fires while one is still        *)
(* waiting to be received is dropped.                                      *)

MaxMonHosts == 2
MaxMonPorts == 2
MaxTicks == 3

\* host arguments, with and without surrounding blanks
HostNamePool == {<<"h">>, <<" ", "g", " ">>}

InitMonitor ==
    /\ fn = "MonitorPorts"
    /\ network = <<>>
    /\ ports \in PortLists(MaxMonPorts)
    /\ \E n \in 0..MaxMonHosts : ips \in [1..n -> HostNamePool]
    /\ SweepStart
    /\ CompareIdle
    /\ GenerateIdle
    /\ PingIdle
    /\ ProbeIdle
    /\ SocketsIdle
    /\ ParseIdle
    /\ PoolIdle
    /\ mpc = "initial"
    /\ round = 0
    /\ ticksFired = 0
    /\ ticksTaken = 0
    /\ tickPending = FALSE
    /\ hostIdx = 0
    /\ portIdx = 0
    /\ mOpen = <<>>
    /\ inFlight = 0
    /\ probeLog = <<>>
    /\ reports = <<>>

\* ticker := time.NewTicker(30 * time.Second): the runtime sends a tick
\* into ticker.C without blocking; the tick is lost when ticker.C is full
MonitorPorts_Tick ==
    /\ fn = "MonitorPorts"
    /\ ticksFired < MaxTicks
    /\ ticksFired' = ticksFired + 1
    /\ tickPending' = TRUE
    /\ UNCHANGED <<inputs, mainv, batchv, taskv, innerv, idlev, poolv, mpc, round,
                   ticksTaken, hostIdx, portIdx, mOpen, inFlight, probeLog, reports>>

\* CheckHosts(hosts, ports), the initial scan
MonitorPorts_Initial ==
    /\ fn = "MonitorPorts" /\ mpc = "initial"
    /\ round' = round + 1
    /\ hostIdx' = 0
    /\ probeLog' = <<>>
    /\ reports' = <<>>
    /\ mpc' = "host"
    /\ UNCHANGED <<inputs, mainv, batchv, taskv, innerv, idlev, poolv, ticksFired,
                   ticksTaken, tickPending, portIdx, mOpen, inFlight>>

\* for range ticker.C { ...; CheckHosts(hosts, ports) }
MonitorPorts_Receive ==
    /\ fn = "MonitorPorts" /\ mpc = "wait"
    /\ tickPending
    /\ tickPending' = FALSE
    /\ ticksTaken' = ticksTaken + 1
    /\ round' = round + 1
    /\ hostIdx' = 0
    /\ probeLog' = <<>>
    /\ reports' = <<>>
    /\ mpc' = "host"
    /\ UNCHANGED <<inputs, mainv, batchv, taskv, innerv, idlev, poolv, ticksFired,
                   portIdx, mOpen, inFlight>>

\* variant: openPorts declared outside the host loop
CheckHosts_NextHost_keep ==
    /\ fn = "MonitorPorts" /\ mpc = "host"
    /\ IF hostIdx < Len(ips)
       THEN /\ hostIdx' = hostIdx + 1
            /\ portIdx' = 0
            /\ mpc' = "port"
       ELSE /\ mpc' = "wait"
            /\ UNCHANGED <<hostIdx, portIdx>>
    /\ UNCHANGED <<inputs, mainv, batchv, taskv, innerv, idlev, poolv, round,
                   ticksFired, ticksTaken, tickPending, inFlight, probeLog, reports,
                   mOpen>>

\* for _, host := range hosts { ...; var openPorts []int
CheckHosts_NextHost ==
    /\ fn = "MonitorPorts" /\ mpc = "host"
    /\ IF hostIdx < Len(ips)
       THEN /\ hostIdx' = hostIdx + 1
            /\ mOpen' = <<>>
            /\ portIdx' = 0
            /\ mpc' = "port"
       ELSE /\ mpc' = "wait"
            /\ UNCHANGED <<hostIdx, mOpen, portIdx>>
    /\ UNCHANGED <<inputs, mainv, batchv, taskv, innerv, idlev, poolv, round,
                   ticksFired, ticksTaken, tickPending, inFlight, probeLog, reports>>

\* for _, port := range ports { if scanner.ScanPort(host, port)
CheckHosts_NextPort ==
    /\ fn = "MonitorPorts" /\ mpc = "port"
    /\ IF portIdx < Len(ports)
       THEN /\ portIdx' = portIdx + 1
            /\ inFlight' = inFlight + 1
            /\ mpc' = "probe"
       ELSE /\ mpc' = "report"
            /\ UNCHANGED <<portIdx, inFlight>>
    /\ UNCHANGED <<inputs, mainv, batchv, taskv, innerv, idlev, poolv, round,
                   ticksFired, ticksTaken, tickPending, hostIdx, mOpen, probeLog,
                   reports>>

\* ... .Open { openPorts = append(openPorts, port) }
CheckHosts_ScanReturn ==
    /\ fn = "MonitorPorts" /\ mpc = "probe"
    /\ \E dialed \in BOOLEAN :
        LET r == ScanPort(dialed, ports[portIdx]) IN
        /\ mOpen' = IF r.Open THEN Append(mOpen, ports[portIdx]) ELSE mOpen
        /\ probeLog' = Append(probeLog,
                              [Host |-> hostIdx, Port |-> portIdx, Open |-> r.Open])
    /\ inFlight' = inFlight - 1
    /\ mpc' = "port"
    /\ UNCHANGED <<inputs, mainv, batchv, taskv, innerv, idlev, poolv, round,
                   ticksFired, ticksTaken, tickPending, hostIdx, portIdx, reports>>

\* if len(openPorts) > 0 { UP - Ports: openPorts } else { DOWN or filtered }
CheckHosts_Report ==
    /\ fn = "MonitorPorts" /\ mpc = "report"
    /\ reports' = Append(reports, [Host |-> TrimSpace(ips[hostIdx]),
                                   Up |-> Len(mOpen) > 0,
                                   Ports |-> IF Len(mOpen) > 0 THEN mOpen ELSE <<>>])
    /\ mpc' = "host"
    /\ UNCHANGED <<inputs, mainv, batchv, taskv, innerv, idlev, poolv, round,
                   ticksFired, ticksTaken, tickPending, hostIdx, portIdx, mOpen,
                   inFlight, probeLog>>

NextMonitor ==
    \/ MonitorPorts_Tick
    \/ MonitorPorts_Initial
    \/ MonitorPorts_Receive
    \/ CheckHosts_NextHost
    \/ CheckHosts_NextPort
    \/ CheckHosts_ScanReturn
    \/ CheckHosts_Report

SpecMonitor == InitMonitor /\ [][NextMonitor]_vars

----------------------------------------------------------------------------
(* Properties                                                              *)

Cap ==
    CASE fn = "PingSweep" -> PingSweep_maxConcurrent
      [] fn = "ScanPorts" -> ScanPorts_maxConcurrent
      [] OTHER -> maxHostConcurrency

\* a task between its acquire and its release
Holding(t) == task[t] \in {"run", "pdispatch", "pcollect", "send", "release"}
PortHolding(t, p) == ptask[t][p] \in {"run", "send", "release"}

\* C1: in every scheduler instance the number of tasks that hold an
\* in-flight slot (acquired, not yet released) never exceeds the cap of the
\* instance, also when there are more work items than slots.
C1_CapNeverExceeded ==
    /\ Cardinality({t \in Items : Holding(t)}) <= Cap
    /\ \A t \in Items :
        Cardinality({p \in PortItems : PortHolding(t, p)}) <= maxPortConcurrency

\* more port items than slots: one port goroutine probes, another waits
C1_Witness ==
    /\ Len(ports) > maxPortConcurrency
    /\ \E t \in Items : \E p, q \in PortItems :
        /\ ptask[t][p] = "run"
        /\ ptask[t][q] = "start"
        /\ portSem[t] = maxPortConcurrency

\* what is left to do, as a number that every step of a sweep decreases
TaskRank(st) ==
    CASE st = "idle" -> 20 [] st = "start" -> 18 [] st = "run" -> 16
      [] st = "pdispatch" -> 14 [] st = "pcollect" -> 12 [] st = "send" -> 10
      [] st = "release" -> 4 [] st = "wgdone" -> 2 [] OTHER -> 0
PortTaskRank(st) ==
    CASE st = "idle" -> 10 [] st = "start" -> 8 [] st = "run" -> 6
      [] st = "send" -> 4 [] st = "release" -> 2 [] st = "wgdone" -> 1
      [] OTHER -> 0
CloserRank(st) == CASE st = "none" -> 2 [] st = "wait" -> 1 [] OTHER -> 0
MainRank ==
    CASE pc = "loop" -> 12 [] pc = "dispatch" -> 8 [] pc = "collect" -> 4
      [] pc = "lock" -> IF fn = "ScanPorts" THEN 7 ELSE 3
      [] pc = "append" -> IF fn = "ScanPorts" THEN 6 ELSE 2
      [] pc = "unlock" -> IF fn = "ScanPorts" THEN 5 ELSE 1
      [] OTHER -> 0
RECURSIVE SumOver(_, _)
SumOver(f, n) == IF n = 0 THEN 0 ELSE f[n] + SumOver(f, n - 1)
HostRank(t) ==
    TaskRank(task[t]) + CloserRank(pcloser[t]) + Len(portResults[t])
        + SumOver([p \in PortItems |-> PortTaskRank(ptask[t][p])], Len(ports))
Remaining == IF pc = "returned" \/ i >= Len(Work) THEN 0 ELSE Len(Work) - i
Variant ==
    20 * Remaining + MainRank + CloserRank(closer) + 4 * Len(results)
        + SumOver([t \in Items |-> HostRank(t)], Len(Work))

\* the goroutines that are not blocked: the caller, an item's task, the
\* closer of the batch, a port goroutine, the closer of a host's ports
MainRunnable ==
    CASE pc = "collect" -> results # <<>> \/ resultsClosed
      [] pc = "lock" -> ~resultsMutex
      [] pc = "returned" -> FALSE
      [] OTHER -> TRUE
TaskRunnable(t) ==
    CASE task[t] = "start" -> sem < Cap
      [] task[t] = "send" -> resultsClosed \/ Len(results) < BatchEnd - i
      [] task[t] = "pcollect" -> portResults[t] # <<>> \/ portClosed[t]
      [] task[t] = "release" -> sem > 0
      [] task[t] \in {"idle", "fin", "panic"} -> FALSE
      [] OTHER -> TRUE
CloserRunnable == closer = "wait" /\ wg = 0
PortTaskRunnable(t, p) ==
    CASE ptask[t][p] = "start" -> portSem[t] < maxPortConcurrency
      [] ptask[t][p] = "send" -> portClosed[t] \/ Len(portResults[t]) < Len(ports)
      [] ptask[t][p] = "release" -> portSem[t] > 0
      [] ptask[t][p] \in {"idle", "fin", "panic"} -> FALSE
      [] OTHER -> TRUE
PortCloserRunnable(t) == pcloser[t] = "wait" /\ portWg[t] = 0
SomeRunnable ==
    \/ MainRunnable
    \/ CloserRunnable
    \/ \E t \in Items :
        \/ TaskRunnable(t)
        \/ PortCloserRunnable(t)
        \/ \E p \in PortItems : PortTaskRunnable(t, p)

\* C2: under fair scheduling every sweep returns, after the operation of
\* every work item has been executed; no task waits forever for a slot, for
\* the collector or for the join.  Stated in the form a finite run refutes:
\* until the sweep has returned some goroutine is not blocked and no
\* goroutine has panicked, every step decreases the natural number Variant,
\* and a returned sweep has probed every item; with the goroutines scheduled
\* fairly this is <>(pc = "returned").
C2_SweepReturns ==
    /\ [](pc # "returned" => SomeRunnable)
    /\ [](\A t \in Items : task[t] # "panic" /\ \A p \in PortItems : ptask[t][p] # "panic")
    /\ [](pc = "returned" => \A t \in Items : probes[t] >= 1)
    /\ [][Variant' < Variant /\ Variant' >= 0]_vars

\* a discovery with more ports than port slots has returned a host
C2_Witness ==
    /\ pc = "returned"
    /\ fn = "NetworkDiscovery"
    /\ Len(ports) > maxPortConcurrency
    /\ Len(ret) > 0

\* C3: every element of the work sequence is probed exactly once in a
\* sweep: never twice, a failed probe is not retried, and at the return
\* every address was probed once and every port of every live host once.
C3_EachItemProbedOnce ==
    /\ \A t \in Items : probes[t] <= 1
    /\ \A t \in Items : \A p \in PortItems : pprobes[t][p] <= 1
    /\ pc = "returned" =>
        \A t \in Items :
            /\ probes[t] = 1
            /\ fn = "NetworkDiscovery" =>
                \A p \in PortItems : pprobes[t][p] = IF outcome[t] THEN 1 ELSE 0

\* a sweep of several batches has returned; one probe failed, one succeeded
C3_Witness ==
    /\ pc = "returned"
    /\ Len(Work) > BatchSize
    /\ \E t, u \in Items : probes[t] = 1 /\ ~outcome[t] /\ outcome[u]

BatchOf(t) == (t - 1) \div BatchSize

\* the item's task had a result to report
Kept(t) ==
    IF fn = "NetworkDiscovery"
    THEN outcome[t] /\ (Len(openPorts[t]) > 0 \/ Len(ports) = 0)
    ELSE outcome[t]

InAccumulator(t) ==
    IF fn = "ScanPorts"
    THEN \E k \in 1..Len(allResults) : allResults[k].Port = ports[t]
    ELSE \E k \in 1..Len(allHosts) : allHosts[k].IP = ips[t]

\* C4: batches are strictly sequential: when a task of a later batch has
\* been dispatched, every task of every earlier batch (and its port
\* goroutines) has finished and its result is in the accumulator.
C4_BatchesSequential ==
    \A t, u \in Items :
        (BatchOf(u) < BatchOf(t) /\ task[t] # "idle") =>
            /\ task[u] = "fin"
            /\ \A p \in PortItems : ptask[u][p] \in {"idle", "fin"}
            /\ Kept(u) => InAccumulator(u)

\* a task of the second batch probes; the first batch reported a result
C4_Witness ==
    \E t, u \in Items :
        /\ BatchOf(u) = 0 /\ BatchOf(t) = 1
        /\ task[t] = "run"
        /\ Kept(u)

\* C5: PingSweep returns exactly the enumerated addresses whose liveness
\* probe returned true, each once and each with Alive = true.
C5_PingSweepReturnsAlive ==
    (fn = "PingSweep" /\ pc = "returned") =>
        /\ \A k \in 1..Len(ret) : ret[k].Alive
        /\ \A k \in 1..Len(ret) : \E t \in Items : ret[k].IP = ips[t]
        /\ \A t \in Items : outcome[t] <=> \E k \in 1..Len(ret) : ret[k].IP = ips[t]
        /\ \A k, l \in 1..Len(ret) : k # l => ret[k].IP # ret[l].IP

\* only one address of the swept window answered
C5_Witness ==
    /\ fn = "PingSweep" /\ pc = "returned"
    /\ Len(ips) = MaxHosts
    /\ ret = <<HostResult(ips[2], TRUE, <<>>)>>
    /\ \A t \in Items : probes[t] = 1

\* C6: ScanPorts returns exactly one result, open, for every element of
\* ports whose connection attempt succeeded and none for the others; the
\* Service of a result is the service-table name of its port.
C6_ScanPortsReturnsOpen ==
    (fn = "ScanPorts" /\ pc = "returned") =>
        /\ \A k \in 1..Len(ret) :
            /\ ret[k].Open
            /\ ret[k].Port \in DOMAIN CommonServices =>
                    ret[k].Service = CommonServices[ret[k].Port]
            /\ ret[k].Port \notin DOMAIN CommonServices => ret[k].Service = ""
        /\ \A t \in Items :
            Cardinality({k \in 1..Len(ret) : ret[k].Port = ports[t]})
                = IF outcome[t] THEN 1 ELSE 0
        /\ Len(ret) = Cardinality({t \in Items : outcome[t]})

\* of the scanned ports only 22 listens: one result, port 22, open, SSH
C6_Witness ==
    /\ fn = "ScanPorts" /\ pc = "returned"
    /\ Len(ports) >= 3
    /\ Len(ret) = 1
    /\ ret[1].Port = 22 /\ ret[1].Open /\ ret[1].Service = "SSH"

\* C7: NetworkDiscovery returns a HostResult for every address whose
\* liveness probe returned true, also when none of its scanned ports is
\* open (then with an empty port list).
C7_EveryAliveHostReturned ==
    (fn = "NetworkDiscovery" /\ pc = "returned") =>
        \A t \in Items :
            outcome[t] => \E k \in 1..Len(ret) : ret[k].IP = ips[t]

\* position of an address in the enumeration
IndexOf(ip) == CHOOSE t \in Items : ips[t] = ip

\* C8: whatever the completion order, the hosts returned by PingSweep and
\* NetworkDiscovery are in ascending numeric address order (the order of
\* the enumeration) and the ports returned by ScanPorts in ascending order.
C8_ReturnedListsSorted ==
    pc = "returned" =>
        \A k, l \in 1..Len(ret) :
            k < l =>
                IF fn = "ScanPorts"
                THEN ret[k].Port <= ret[l].Port
                ELSE IndexOf(ret[k].IP) < IndexOf(ret[l].IP)

\* the hosts .9 and .10 were collected in the order .10, .9 and are
\* returned in the order .9, .10
C8_Witness ==
    /\ pc = "returned"
    /\ fn = "NetworkDiscovery"
    /\ Len(batchHosts) = 2
    /\ batchHosts[1].IP = ips[2] /\ batchHosts[2].IP = ips[1]
    /\ Len(ret) = 2
    /\ ret[1].IP = ips[1] /\ ret[2].IP = ips[2]
    /\ StringLess(ips[2], ips[1])

\* C9: in the list returned by NetworkDiscovery the port list of every host
\* is in ascending port order.
C9_HostPortsAscending ==
    (fn = "NetworkDiscovery" /\ pc = "returned") =>
        \A k \in 1..Len(ret) :
            \A a, b \in 1..Len(ret[k].Ports) :
                a < b => ret[k].Ports[a].Port < ret[k].Ports[b].Port

\* octet-by-octet integer order of two addresses
OctetsLess(a, b) ==
    \E k \in 1..4 : a[k] < b[k] /\ \A j \in 1..(k - 1) : a[j] = b[j]

\* C10: CompareIPs(a, b) is true exactly when a precedes b octet by octet
\* as integers; it is false on equal addresses, never true in both
\* directions, and differs from the string order wherever that order
\* differs from the numeric one.
C10_CompareIPsNumeric ==
    cpc = "done" =>
        /\ less12 <=> OctetsLess(o1, o2)
        /\ o1 = o2 => ~less12
        /\ ~(less12 /\ less21)
        /\ (StringLess(ip1, ip2) # OctetsLess(o1, o2)) =>
                less12 # StringLess(ip1, ip2)

\* x.y.z.9 against x.y.z.10: numerically before, as a string after
C10_Witness ==
    /\ cpc = "done"
    /\ o1[4] = 9 /\ o2[4] = 10
    /\ \A k \in 1..3 : o1[k] = o2[k]
    /\ less12 /\ ~less21
    /\ StringLess(ip2, ip1)

\* a decimal numeral of an octet, 0..255
IsOctet(f) ==
    /\ Len(f) \in 1..3
    /\ \A k \in 1..Len(f) : IsDigit(f[k])
    /\ Sscanf(f) <= 255

\* the specification is a dotted quad of octets followed by /24
WellFormed24 ==
    /\ gsuffix = Slash24
    /\ Len(gfields) = 4
    /\ \A k \in 1..4 : IsOctet(gfields[k])

\* C11: for a /24 specification GenerateIPs returns exactly 254 addresses;
\* the k-th has the first three octets of the base and the last octet k, for
\* k = 1, ..., 254; the last octet of the base appears nowhere, and no
\* address ends in .0 or .255.
C11_Slash24Yields254 ==
    (gpc = "done" /\ WellFormed24) =>
        /\ Len(ips) = 254
        /\ \A k \in 1..Len(ips) :
            LET parts == Split(ips[k], ".")
            IN /\ Len(parts) = 4
               /\ \A j \in 1..3 : parts[j] = gfields[j]
               /\ IsOctet(parts[4])
               /\ Sscanf(parts[4]) = k
               /\ Sscanf(parts[4]) \notin {0, 255}

\* a base whose own last octet is 255: the enumeration starts at .1 and
\* does not end at the base's address
C11_Witness ==
    /\ gpc = "done" /\ WellFormed24
    /\ gfields[4] = <<"2", "5", "5">>
    /\ Len(ips) = 254
    /\ ips[1] = gfields[1] \o <<".">> \o gfields[2] \o <<".">> \o gfields[3]
                    \o <<".", "1">>
    /\ ips[254] # JoinDots(gfields)

\* C12: for every specification that is not a well-formed IPv4 /24
\* specification (another prefix length, no prefix, a base without exactly
\* four fields, a base with a non-numeric or out-of-range field)
\* GenerateIPs returns the empty sequence.
C12_MalformedYieldsEmpty ==
    (gpc = "done" /\ ~WellFormed24) => ips = <<>>

\* C13: PingHostFast returns true only if a connection attempt of this call
\* succeeded, and was signalled, before the return; it returns false only
\* after the timeout of its context has fired; if no attempt succeeds it
\* returns false, and while it waits the timeout is still to come.
C13_PingResultJustified ==
    /\ hpc \in {"return", "returned"} =>
        /\ hret => \E a \in Attempts : dialOk[a] /\ signalled[a]
        /\ ~hret => ctx = "expired"
        /\ (\A a \in Attempts : ~dialOk[a]) => ~hret
    /\ hpc = "parked" => (ctx = "live" /\ success = 0)

\* every attempt has failed and the call has returned false
C13_Witness ==
    /\ hpc = "returned" /\ ~hret
    /\ \A a \in Attempts : attempt[a] = "done" /\ ~dialOk[a]
    /\ ctx = "expired"

\* C14: if the success of an attempt is signalled before the timeout of the
\* call fires, the call returns true: the success is never lost in favour
\* of the timeout.
C14_SuccessNeverLost ==
    (hpc \in {"return", "returned"} /\ inTime) => hret

\* C15: when the dial of ScanPort or ScanPortFast fails, the PortResult
\* returned has Open = false, no service and no banner, and nothing was
\* called on a connection (no banner read); in every state a PortResult
\* with Open = false carries neither a service nor a banner.
C15_ClosedPortCarriesNothing ==
    /\ (spc = "returned" /\ conn = "none") =>
        /\ sresult = [Port |-> sport, Open |-> FALSE, Service |-> "", Banner |-> <<>>]
        /\ connOps = <<>>
        /\ bannerStr = <<>>
    /\ ~sresult.Open => (sresult.Service = "" /\ sresult.Banner = <<>>)

\* the dial to port 22, which has a service name and a peer that would
\* send a banner, failed
C15_Witness ==
    /\ spc = "returned" /\ conn = "none"
    /\ sport = 22
    /\ ~speer.err /\ speer.data # <<>>
    /\ ~sresult.Open /\ sresult.Port = 22

\* the calls named op among those made on the connection
OpCount(op) == Cardinality({k \in 1..Len(connOps) : connOps[k] = op})

\* C16: on a connection dialed on port 443 the banner reader of either
\* profile neither writes nor reads, and returns the empty banner.
C16_NoReadOnPort443 ==
    (sport = 443 /\ spc \in {"grabbed", "returned"} /\ conn # "none") =>
        /\ OpCount("Write") = 0
        /\ OpCount("Read") = 0
        /\ bannerStr = <<>>

\* C17: the banner GrabBannerFast returns is at most 40+3 bytes long and
\* the one GrabBanner returns at most 50+3; the marker "..." is appended to
\* the first 40 (50) bytes of the normalized text exactly when that text is
\* longer than 40 (50) bytes, and a text within the bound is returned as is.
C17_BannerLengthBounded ==
    /\ [](spc \in {"grabbed", "returned"} =>
            /\ sfn = "ScanPortFast" => Len(bannerStr) <= 40 + 3
            /\ sfn = "ScanPort" => Len(bannerStr) <= 50 + 3)
    /\ [][spc = "truncate" =>
            LET bound == IF sfn = "ScanPortFast" THEN 40 ELSE 50
            IN /\ Len(gbanner) > bound =>
                    /\ Len(bannerStr') = bound + 3
                    /\ SubSeq(bannerStr', 1, bound) = SubSeq(gbanner, 1, bound)
                    /\ SubSeq(bannerStr', bound + 1, bound + 3) = <<".", ".", ".">>
               /\ Len(gbanner) <= bound => bannerStr' = gbanner]_vars

\* a text of 41 bytes was cut by the fast profile
C17_Witness ==
    /\ spc = "returned" /\ sfn = "ScanPortFast"
    /\ Len(gbanner) = 43
    /\ sresult.Banner = Fill(40) \o <<".", ".", ".">>
    /\ Len(TrimSpace(ReplaceLF(ReplaceCRLF(speer.data)))) = 41

\* C18: whatever bytes the peer sends, the banner returned by GrabBanner
\* and by GrabBannerFast contains no carriage return and no line feed.
C18_NoLineBreakInBanner ==
    spc \in {"grabbed", "returned"} =>
        \A k \in 1..Len(bannerStr) : bannerStr[k] \notin {"CR", "LF"}

\* C19: in NetworkDiscovery a port goroutine of an address exists, and a
\* port probe against it is made, only after the liveness probe of that
\* address has returned true.
C19_PortProbeOnlyAfterAlive ==
    fn = "NetworkDiscovery" =>
        \A t \in Items : \A p \in PortItems :
            (ptask[t][p] # "idle" \/ pprobes[t][p] > 0) =>
                (probes[t] = 1 /\ outcome[t])

\* one address is being port-probed while another, found not alive, has
\* finished without a port goroutine
C19_Witness ==
    /\ fn = "NetworkDiscovery"
    /\ \E t, u \in Items : \E p \in PortItems :
        /\ outcome[t] /\ ptask[t][p] = "run"
        /\ probes[u] = 1 /\ ~outcome[u] /\ task[u] = "fin"
        /\ \A q \in PortItems : ptask[u][q] = "idle" /\ pprobes[u][q] = 0

\* the HostResults of address t that have been sent, collected or returned
ReportsOf(t) ==
    {results[k] : k \in {j \in 1..Len(results) : results[j].IP = ips[t]}}
        \cup {batchHosts[k] : k \in {j \in 1..Len(batchHosts) : batchHosts[j].IP = ips[t]}}
        \cup {allHosts[k] : k \in {j \in 1..Len(allHosts) : allHosts[j].IP = ips[t]}}
        \cup {ret[k] : k \in {j \in 1..Len(ret) : ret[j].IP = ips[t]}}

\* C20: in NetworkDiscovery a host task has sent its HostResult, or gone
\* past the send, only when every port goroutine of the host has finished
\* its probe; the port list reported holds exactly the results of the ports
\* found open, each open and each once; and a host task that has given
\* back its slot and had something to report has reported it.
C20_HostReportedAfterPortSweep ==
    fn = "NetworkDiscovery" =>
        \A t \in Items :
            /\ ((task[t] \in {"send", "release", "wgdone", "fin"} /\ outcome[t])
                    \/ ReportsOf(t) # {}) =>
                \A p \in PortItems : ptask[t][p] = "fin" /\ pprobes[t][p] = 1
            /\ \A h \in ReportsOf(t) :
                /\ \A k \in 1..Len(h.Ports) : h.Ports[k].Open
                /\ \A p \in PortItems :
                    Cardinality({k \in 1..Len(h.Ports) : h.Ports[k].Port = ports[p]})
                        = IF presult[t][p].Open THEN 1 ELSE 0
                /\ \A k \in 1..Len(h.Ports) :
                    \E p \in PortItems : h.Ports[k] = presult[t][p]
            /\ (task[t] \in {"wgdone", "fin"} /\ Kept(t)) => ReportsOf(t) # {}

\* a host was scanned on two ports and is returned with the one found open
C20_Witness ==
    /\ fn = "NetworkDiscovery" /\ pc = "returned"
    /\ Len(ports) = 2
    /\ \E k \in 1..Len(ret) :
        /\ Len(ret[k].Ports) = 1
        /\ ret[k].Ports[1].Port = 80 /\ ret[k].Ports[1].Open

\* C21: every task gives back exactly the one slot it acquired, on every way
\* out (probe succeeded, probe failed, host not alive with early return): in
\* every state the number of held slots equals the number of tasks between
\* their acquire and their release, for the host slots and for the port slots
\* of every host, and once the join of a batch (or of a host's port
\* goroutines) has completed no slot is held.
C21_SlotsMatchHolders ==
    /\ sem = Cardinality({t \in Items : Holding(t)})
    /\ \A t \in Items :
        portSem[t] = Cardinality({p \in PortItems : PortHolding(t, p)})
    /\ closer = "fin" => sem = 0
    /\ \A t \in Items : pcloser[t] = "fin" => portSem[t] = 0

\* a discovery batch was joined after one host left by the early return and
\* another went through its port sweep
C21_Witness ==
    /\ fn = "NetworkDiscovery" /\ closer = "fin" /\ sem = 0
    /\ \E t, u \in (i + 1)..BatchEnd :
        /\ task[t] = "fin" /\ probes[t] = 1 /\ ~outcome[t]
        /\ task[u] = "fin" /\ probes[u] = 1 /\ outcome[u]

\* C22: a batch's result channel is closed only after every task dispatched
\* in the batch has completed, so no task sends on a closed channel (none
\* panics); and as the channel's capacity is the batch length a task that is
\* at its send finds room in the buffer, whether or not the collecting loop
\* has begun to read. The same holds for the port channel of each host.
C22_CloseAfterTasksSendNeverBlocks ==
    /\ resultsClosed =>
        /\ \A t \in Items : task[t] \in {"idle", "fin"}
        /\ pc # "loop" => \A t \in (i + 1)..BatchEnd : task[t] = "fin"
    /\ \A t \in Items :
        /\ task[t] # "panic"
        /\ task[t] = "send" => ~resultsClosed /\ Len(results) < BatchEnd - i
        /\ portClosed[t] => \A p \in PortItems : ptask[t][p] = "fin"
        /\ \A p \in PortItems :
            /\ ptask[t][p] # "panic"
            /\ ptask[t][p] = "send" =>
                ~portClosed[t] /\ Len(portResults[t]) < Len(ports)

\* the caller is still dispatching and has read nothing: all results of the
\* batch but one are buffered and the last task is at its send
C22_Witness ==
    /\ pc = "dispatch"
    /\ Len(results) = BatchEnd - i - 1
    /\ Len(results) >= 1
    /\ \E t \in Items : task[t] = "send"

\* what identifies the result of an item: its port in ScanPorts, else its address
KeyOf(r) == IF fn = "ScanPorts" THEN r.Port ELSE r.IP
KeyAt(t) == IF fn = "ScanPorts" THEN ports[t] ELSE ips[t]
Accumulator == IF fn = "ScanPorts" THEN allResults ELSE allHosts
CountIn(seq, t) == Cardinality({k \in 1..Len(seq) : KeyOf(seq[k]) = KeyAt(t)})

\* the item's task has sent a result to the batch channel
Sent(t) == task[t] \in {"release", "wgdone", "fin"} /\ Kept(t)

\* results the collecting loop has taken from the channel and not yet appended
InHand(t) ==
    IF fn = "ScanPorts"
    THEN IF pc \in {"lock", "append"} /\ recv.Port = ports[t] THEN 1 ELSE 0
    ELSE IF pc \in {"collect", "lock", "append"} THEN CountIn(batchHosts, t) ELSE 0

\* C23: every result sent to a batch channel is, at any time, in exactly one
\* of the channel, the collecting loop's hands and the cross-batch
\* accumulator, and at the return it is in the accumulator (and the list
\* returned) exactly once; the accumulator grows only in a step that starts
\* and ends with the results mutex held, and the mutex is held by the
\* collecting goroutine alone, so no two appends overlap.
C23_SentOnceUnderMutex ==
    /\ [](/\ \A t \in Items :
                CountIn(results, t) + InHand(t) + CountIn(Accumulator, t)
                    = IF Sent(t) THEN 1 ELSE 0
          /\ pc = "returned" =>
                \A t \in Items :
                    /\ CountIn(Accumulator, t) = IF Sent(t) THEN 1 ELSE 0
                    /\ CountIn(ret, t) = IF Sent(t) THEN 1 ELSE 0
          /\ pc = "append" => resultsMutex
          /\ resultsMutex => pc \in {"append", "unlock"})
    /\ [][Len(Accumulator') > Len(Accumulator) => resultsMutex /\ resultsMutex']_vars

\* ScanPorts holds the mutex to append the result of its second batch to the
\* two of the first
C23_Witness ==
    /\ fn = "ScanPorts" /\ pc = "append" /\ resultsMutex
    /\ Len(allResults) = 2 /\ i = ScanPorts_batchSize
    /\ recv.Port = ports[3]

\* port probes of a host that hold a port slot, and their sum over the hosts
ProbesExecuting(t) == Cardinality({p \in PortItems : PortHolding(t, p)})
TotalProbesExecuting ==
    SumOver([t \in Items |-> ProbesExecuting(t)], Len(ips))

\* C24: during NetworkDiscovery the port probes executing for one host never
\* exceed the port cap; a port probe executes only inside a host task that
\* holds a host slot; and the probes executing over all hosts never exceed
\* the product of the host cap and the port cap.
C24_ProbesBoundedByProduct ==
    fn = "NetworkDiscovery" =>
        /\ \A t \in Items :
            /\ ProbesExecuting(t) <= maxPortConcurrency
            /\ ProbesExecuting(t) > 0 => task[t] \in {"pdispatch", "pcollect"}
        /\ TotalProbesExecuting <= maxHostConcurrency * maxPortConcurrency

\* two hosts each run a port probe while a further port of each waits for
\* the host's port slot
C24_Witness ==
    /\ fn = "NetworkDiscovery"
    /\ \E t, u \in Items :
        /\ t # u
        /\ \E p, q \in PortItems : p # q /\ ptask[t][p] = "run" /\ ptask[t][q] = "start"
        /\ \E p, q \in PortItems : p # q /\ ptask[u][p] = "run" /\ ptask[u][q] = "start"
    /\ TotalProbesExecuting = 2

\* connection attempts under way, over all hosts of the sweep
AttemptsOutstanding == SumOver(dialing, Len(ips))

\* C25: during a host sweep the connection attempts under way, those of a
\* liveness probe already decided and left behind included, never exceed
\* the sweep's concurrency cap times the number of ports a probe tries.
C25_AttemptsBoundedByCap ==
    AttemptsOutstanding <= maxHostConcurrency * PingHostFast_ports

\* how far an attempt goroutine is from its end
AttemptRank(st) ==
    CASE st = "idle" -> 4 [] st = "dial" -> 3 [] st = "close" -> 2
      [] st = "signal" -> 1 [] OTHER -> 0

ReaderCalls(port) ==
    IF port \in {80, 8080}
    THEN <<"SetReadDeadline", "Write", "Read">>
    ELSE <<"SetReadDeadline", "Read">>
IsPrefix(s, u) == Len(s) <= Len(u) /\ s = SubSeq(u, 1, Len(s))

\* C27: on every port other than 443 the banner reader of either profile sets
\* the read deadline first, then writes its request exactly when the port is
\* 80 or 8080 (nothing on the others, 21, 22 and 25 among them), then reads
\* exactly once: at any moment the calls made are a beginning of that
\* sequence, and they are the whole of it when the read has been made.
C27_DeadlineWriteReadOrder ==
    sport # 443 =>
        /\ IsPrefix(connOps, ReaderCalls(sport) \o <<"Close">>)
        /\ spc \in {"normalize", "truncate", "grabbed"} => connOps = ReaderCalls(sport)
        /\ (spc = "returned" /\ conn # "none") =>
                connOps = ReaderCalls(sport) \o <<"Close">>

\* the quick profile has probed port 8080: deadline, request, one read
C27_Witness ==
    /\ sfn = "ScanPortFast" /\ sport = 8080 /\ spc = "returned"
    /\ connOps = <<"SetReadDeadline", "Write", "Read", "Close">>

\* C28: when the read of the banner fails or yields no byte the banner
\* reader returns the empty banner and the probe all the same returns the
\* port as open with the service name of the table.
C28_ReadFailureKeepsPortOpen ==
    (/\ spc \in {"grabbed", "returned"} /\ conn # "none"
     /\ OpCount("Read") = 1
     /\ speer.err \/ speer.data = <<>>) =>
        /\ bannerStr = <<>>
        /\ spc = "returned" =>
            /\ sresult = PortResult(sport, TRUE, ServiceOf(sport), <<>>)
            /\ sport = 21 => sresult.Service = "FTP"
            /\ sport = 9999 => sresult.Service = ""

\* the read on port 21 returned no byte and no error: open, FTP, no banner
C28_Witness ==
    /\ spc = "returned" /\ sport = 21
    /\ ~speer.err /\ speer.data = <<>>
    /\ OpCount("Read") = 1
    /\ sresult.Open /\ sresult.Banner = <<>>

\* C29: a connection that was made is open while the probe runs and closed
\* when the probe has returned; Close is called once, as the last call on
\* the connection, after the banner was acquired, on every way to the
\* return; a probe whose dial failed has no connection to close.
C29_ConnectionClosedOnce ==
    /\ conn = "open" <=>
            spc \in {"lookup", "deadline", "switch", "read", "normalize",
                     "truncate", "grabbed"}
    /\ spc # "returned" => OpCount("Close") = 0
    /\ (spc = "returned" /\ conn # "none") =>
        /\ conn = "closed"
        /\ OpCount("Close") = 1
        /\ connOps[Len(connOps)] = "Close"
    /\ conn = "none" => connOps = <<>>

\* the quick profile returns from port 443 without reading: the connection
\* is closed on that way too
C29_Witness ==
    /\ sfn = "ScanPortFast" /\ sport = 443 /\ spc = "returned"
    /\ conn = "closed"
    /\ connOps = <<"SetReadDeadline", "Close">>

\* the pieces of a text between its separators, of whichever form it has
PiecesOf(text) ==
    IF Contains(text, "-") THEN Split(text, "-") ELSE Split(text, ",")

\* C30: every port ParsePortRange returns, from the range form and from the
\* comma form alike, lies in [1, 65535], and a text none of whose pieces is
\* a number yields no port.
C30_ParsedPortsInRange ==
    rpc = "done" =>
        /\ \A k \in 1..Len(ports) : ports[k] >= 1 /\ ports[k] <= 65535
        /\ (\A k \in 1..Len(PiecesOf(portRange)) :
                Atoi(TrimSpace(PiecesOf(portRange)[k])).err) => ports = <<>>

\* a returned list as a set of hosts, each with the set of its ports
HostView(hostList) ==
    {[IP |-> hostList[k].IP,
      Ports |-> {hostList[k].Ports[j].Port : j \in 1..Len(hostList[k].Ports)}] :
        k \in 1..Len(hostList)}

\* what NetworkDiscovery returns for the outcomes of the probes: every host
\* found alive that has an open port or was scanned with an empty port list
DiscoveryReturns ==
    {[IP |-> ips[t],
      Ports |-> {ports[p] : p \in {q \in PortItems : presult[t][q].Open}}] :
        t \in {u \in Items :
                outcome[u] /\ (Len(ports) = 0 \/ \E q \in PortItems : presult[u][q].Open)}}

\* NetworkDiscovery does return that (holds under Spec)
NetworkDiscovery_ReturnsExpected ==
    (fn = "NetworkDiscovery" /\ pc = "returned") =>
        /\ HostView(ret) = DiscoveryReturns
        /\ Len(ret) = Cardinality(DiscoveryReturns)

\* C31: for every port list, the empty one included, and every outcome of
\* the liveness and port probes NetworkDiscoveryWorkerPool returns what
\* NetworkDiscovery returns for these outcomes: the same hosts, each once,
\* each with the same set of open ports.
C31_WorkerPoolEquivalent ==
    (fn = "NetworkDiscoveryWorkerPool" /\ pc = "returned") =>
        /\ HostView(ret) = DiscoveryReturns
        /\ Len(ret) = Cardinality(DiscoveryReturns)

\* addresses a worker has received and not yet finished with
BeingProcessed == {t \in Items : task[t] \in {"run", "pdispatch", "pcollect", "send"}}

\* what is left to do in a worker pool, as a number that every step decreases
PoolTaskRank(st) ==
    CASE st = "idle" -> 11 [] st = "run" -> 9 [] st = "pdispatch" -> 8
      [] st = "pcollect" -> 7 [] st = "send" -> 2 [] OTHER -> 0
PoolPortRank(st) ==
    CASE st = "idle" -> 5 [] st = "run" -> 4 [] st = "send" -> 3
      [] st = "wgdone" -> 1 [] OTHER -> 0
PoolAddressRank(t) ==
    (IF t > fed THEN 1 ELSE 0) + PoolTaskRank(task[t])
        + CloserRank(pcloser[t]) + Len(portResults[t])
        + SumOver([p \in PortItems |-> PoolPortRank(ptask[t][p])], Len(ports))
PoolMainRank ==
    CASE pc = "loop" -> 3 + numWorkers - spawned [] pc = "dispatch" -> 2
      [] pc = "collect" -> 1 [] OTHER -> 0
PoolVariant ==
    PoolMainRank + CloserRank(closer) + Len(results)
        + (CASE feeder = "none" -> 2 [] feeder = "run" -> 1 [] OTHER -> 0)
        + Cardinality({w \in Workers : wpc[w] # "exited"})
        + SumOver([t \in Items |-> PoolAddressRank(t)], Len(ips))

\* some goroutine of the worker pool can take a step
PoolRunnable ==
    \/ pc \in {"loop", "dispatch"}
    \/ pc = "collect" /\ (results # <<>> \/ resultsClosed)
    \/ feeder = "run" /\ (fed = Len(ips) \/ Len(jobs) < bufferSize)
    \/ closer = "wait" /\ wg = 0
    \/ \E w \in Workers :
        \/ wpc[w] = "range" /\ (jobs # <<>> \/ jobsClosed)
        \/ /\ wpc[w] = "busy"
           /\ \/ task[worker[w]] \in {"run", "pdispatch"}
              \/ /\ task[worker[w]] = "pcollect"
                 /\ (portResults[worker[w]] # <<>> \/ portClosed[worker[w]])
              \/ /\ task[worker[w]] = "send"
                 /\ (resultsClosed \/ Len(results) < bufferSize)
    \/ \E t \in Items :
        \/ pcloser[t] = "wait" /\ portWg[t] = 0
        \/ \E p \in PortItems :
            \/ ptask[t][p] \in {"run", "wgdone"}
            \/ /\ ptask[t][p] = "send"
               /\ (portClosed[t] \/ Len(portResults[t]) < Len(ports))

\* C32: in NetworkDiscoveryWorkerPool no address is received from the jobs
\* channel more than once and at the return every address has been received
\* once; an address is in the hands of one worker at a time and at most
\* numWorkers addresses are being processed; the results channel is closed
\* only with every worker exited, so that no send meets a closed channel;
\* and, the channels holding at most bufferSize entries, the call always
\* has a goroutine that can take a step until it has returned, and every
\* step brings it nearer to the return: it terminates without deadlock.
C32_WorkerPoolTerminates ==
    /\ [](/\ \A t \in Items :
                /\ taken[t] <= 1
                /\ Cardinality({w \in Workers : wpc[w] = "busy" /\ worker[w] = t})
                        = IF t \in BeingProcessed THEN 1 ELSE 0
                /\ task[t] # "panic"
                /\ \A p \in PortItems : ptask[t][p] # "panic"
          /\ Cardinality(BeingProcessed) <= numWorkers
          /\ Len(jobs) <= bufferSize /\ Len(results) <= bufferSize
          /\ resultsClosed => \A w \in Workers : wpc[w] = "exited"
          /\ pc = "returned" => \A t \in Items : taken[t] = 1 /\ task[t] = "fin"
          /\ pc # "returned" => PoolRunnable)
    /\ [][PoolVariant' < PoolVariant]_vars

\* the results channel is full and a worker has a further host to send: it
\* waits for the caller to receive
C32_Witness ==
    /\ fn = "NetworkDiscoveryWorkerPool"
    /\ Len(results) = bufferSize
    /\ \E w \in Workers : wpc[w] = "busy" /\ task[worker[w]] = "send"
    /\ jobsClosed

\* C33: in PingSweep, ScanPorts and the host level of NetworkDiscovery the
\* batch size is below the cap of the per-batch semaphore, so a started task
\* always finds a free slot (its acquire never blocks), the slots taken and
\* the tasks executing never outnumber the batch size, and the cap is never
\* reached; a task can wait only at NetworkDiscovery's per-host port cap.
C33_OuterCapNeverBinds ==
    fn \in {"PingSweep", "ScanPorts", "NetworkDiscovery"} =>
        /\ BatchSize < Cap
        /\ sem <= BatchSize
        /\ sem < Cap
        /\ Cardinality({t \in Items : Holding(t)}) <= BatchSize
        /\ \A t \in Items : task[t] = "start" => sem < Cap
        /\ \A t \in Items : \A p \in PortItems :
            (ptask[t][p] = "start" /\ portSem[t] >= maxPortConcurrency) =>
                fn = "NetworkDiscovery"

\* a full batch of NetworkDiscovery holds its host slots below the cap while
\* a port task of one host waits at the per-host port cap
C33_Witness ==
    /\ fn = "NetworkDiscovery"
    /\ sem = NetworkDiscovery_batchSize
    /\ Cardinality({t \in Items : Holding(t)}) = NetworkDiscovery_batchSize
    /\ \A t \in Items : task[t] # "start"
    /\ \E t \in Items : \E q \in PortItems :
        /\ ptask[t][q] = "start"
        /\ portSem[t] = maxPortConcurrency

\* the k-th (host, port) pair of a round, hosts outermost, both in input order
PairAt(k) ==
    [Host |-> ((k - 1) \div Len(ports)) + 1, Port |-> ((k - 1) % Len(ports)) + 1]

\* the ports of host h found open in the current round, in probing order
OpenProbed(h) ==
    LET sel == SelectSeq(probeLog, LAMBDA e : e.Host = h /\ e.Open)
    IN [k \in 1..Len(sel) |-> ports[sel[k].Port]]

\* the hosts whose port loop has finished in the current round
HostsDone ==
    IF mpc \in {"initial", "wait"} THEN IF round = 0 THEN 0 ELSE Len(ips)
    ELSE IF mpc = "host" THEN hostIdx
    ELSE hostIdx - 1

\* what holds of one round of CheckHosts while it runs and when it is over
RoundInOrder ==
    /\ inFlight = IF mpc = "probe" THEN 1 ELSE 0
    /\ \A k \in 1..Len(probeLog) :
        /\ probeLog[k].Host = PairAt(k).Host
        /\ probeLog[k].Port = PairAt(k).Port
    /\ Len(probeLog) =
        CASE mpc \in {"initial", "wait"} -> (IF round = 0 THEN 0 ELSE Len(ips) * Len(ports))
          [] mpc = "host" -> hostIdx * Len(ports)
          [] mpc = "probe" -> (hostIdx - 1) * Len(ports) + portIdx - 1
          [] mpc = "report" -> hostIdx * Len(ports)
          [] OTHER -> (hostIdx - 1) * Len(ports) + portIdx
    /\ Len(reports) = HostsDone
    /\ \A h \in 1..Len(reports) :
        /\ reports[h].Host = TrimSpace(ips[h])
        /\ reports[h].Up = (\E k \in 1..Len(probeLog) :
                                probeLog[k].Host = h /\ probeLog[k].Open)
        /\ reports[h].Ports = OpenProbed(h)

\* a round starts only from the initial call or from the receive of a tick,
\* with the previous round over, and a tick is consumed by exactly one round
RoundsInTurn ==
    /\ round = IF mpc = "initial" THEN 0 ELSE 1 + ticksTaken
    /\ ticksTaken + (IF tickPending THEN 1 ELSE 0) <= ticksFired

RoundStep ==
    round' # round =>
        /\ round' = round + 1
        /\ mpc \in {"initial", "wait"} /\ mpc' = "host"
        /\ inFlight = 0
        /\ round > 0 => (Len(reports) = Len(ips) /\ ticksTaken' = ticksTaken + 1)

\* C34 as stated: one round of CheckHosts probes every (host, port) pair
\* once, one at a time in input order, and reports every host once, UP with
\* its open ports in input order or DOWN; MonitorPorts runs one round at once
\* and one further round for every tick of the ticker, no tick being lost,
\* and rounds never overlap.
C34_OneRoundPerTick ==
    /\ [](RoundInOrder /\ RoundsInTurn)
    /\ [](ticksFired = ticksTaken + (IF tickPending THEN 1 ELSE 0))
    /\ [][RoundStep]_vars

\* C34 amended: as above, with one further round for every tick received
\* from ticker.C; a tick that fires while an earlier one has not been
\* received yet starts no round.
C34_OneRoundPerReceivedTick ==
    /\ [](RoundInOrder /\ RoundsInTurn)
    /\ [][RoundStep]_vars

\* a second round is over with two hosts and two ports probed, one host
\* reported UP with its second port only and one DOWN, and a tick was lost
\* on the way
C34_Witness ==
    /\ fn = "MonitorPorts" /\ mpc = "wait" /\ round = 2
    /\ Len(ips) = 2 /\ Len(ports) = 2
    /\ reports[1].Up /\ reports[1].Ports = <<ports[2]>>
    /\ ~reports[2].Up
    /\ ticksFired > ticksTaken + (IF tickPending THEN 1 ELSE 0)

====
